---- MODULE Spec2Model ----
(***************************************************************************)
(* cutadapt command-line driver (src/src/cutadapt/__main__.py).            *)
(*                                                                         *)
(* Two state machines share the variables below:                           *)
(*   - main(): option checking, pipeline assembly, opening of the output   *)
(*     files, runner set-up, the run and the exit status;                  *)
(*   - the parallel runner (reader / worker pool / ordered writer) that    *)
(*     setup_runner selects for cores > 1, next to the serial runner.      *)
(*                                                                         *)
(* Encoding of Python values:                                              *)
(*   - an Optional value is a tuple of length <= 1: << >> is None and      *)
(*     <<v>> is the value v;                                               *)
(*   - a str is a tuple of tokens; for option values that are parsed       *)
(*     (-m, -M, -q, -Q) a token is one character, for paths and templates  *)
(*     a token is a literal piece or one placeholder such as "{name}";     *)
(*   - a list is a tuple.                                                  *)
(***************************************************************************)
EXTENDS Integers, Sequences, FiniteSets, TLC

VARIABLES
    pc,          \* position of main(): the statement that runs next
    args,        \* the argparse namespace
    paired,      \* main's local `paired`
    cores,       \* main's local `cores`
    threads,     \* the `threads` argument of the FileOpener
    inputNames,  \* (input_filename, input_paired_filename)
    adapters,    \* main's local `adapters`  (R1)
    adapters2,   \* main's local `adapters2` (R2)
    pipeline,    \* Optional Pipeline built by pipeline_from_parsed_args
    outfiles,    \* Optional OutputFiles built by open_output_files
    opened,      \* paths opened for writing ("wb") so far by the FileOpener
    runner,      \* "none" | "serial" | "parallel": the runner setup_runner made
    raised,      \* the exception that ended main ("none" while there is none)
    exitStatus,  \* Optional exit status of the process
    exitedAt,    \* the statement of main() that ended the process ("none")
    started,     \* TRUE once runner.run() has been entered
    input,       \* the records of the input file(s), in file order
    written,     \* per open output file, the ids of the records written to it
    stats,       \* the Statistics object main receives from runner.run()
    readerPos,   \* number of input records read so far
    chunksMade,  \* number of chunks the reader has produced
    readerDone,  \* the reader reached the end of the input and said so
    chunkQueue,  \* reader -> workers: chunks waiting for a worker
    workers,     \* per worker: what it does, the result it holds, its statistics
    resultQueue, \* workers -> writer: results waiting for the writer
    writerBuf,   \* results the writer received and has not written yet
    nextWrite    \* chunk_id the writer writes next

setupVars == <<args, paired, cores, threads, inputNames, adapters, adapters2,
               pipeline, outfiles, opened, runner>>

runVars == <<written, stats, readerPos, chunksMade, readerDone, chunkQueue,
             workers, resultQueue, writerBuf, nextWrite>>

vars == <<pc, raised, exitStatus, exitedAt, started, input, setupVars, runVars>>

-----------------------------------------------------------------------------
(* Python values                                                           *)

None == << >>

Some(v) == <<v>>

IsNone(x) == x = << >>

Val(x) == x[1]

\* bool(x) of an Optional str: None and "" are false
Truthy(x) == x # << >> /\ x[1] # << >>

\* bool(x) of a list
NonEmpty(l) == Len(l) > 0

\* `token in s` for a tokenised str
Contains(s, token) == \E i \in 1..Len(s) : s[i] = token

\* s.replace(token, by): every occurrence of the placeholder is replaced
StrReplace(s, token, by) == [i \in 1..Len(s) |-> IF s[i] = token THEN by ELSE s[i]]

Range(s) == {s[i] : i \in 1..Len(s)}

-----------------------------------------------------------------------------
(* The options: get_argument_parser                                        *)

\* The namespace argparse returns when no option is given.  `leftover_args`
\* is the second value of parse_known_args, kept with the namespace.
DefaultArgs ==
    [ cores |-> 1, quiet |-> FALSE, report |-> None, leftover_args |-> << >>,
      gc_content |-> 50, overlap |-> 3, times |-> 1, action |-> Some("trim"),
      adapters |-> << >>, adapters2 |-> << >>,
      reverse_complement |-> FALSE, pair_adapters |-> FALSE,
      cut |-> << >>, cut2 |-> << >>,
      nextseq_trim |-> None, quality_cutoff |-> None, quality_cutoff2 |-> None,
      quality_base |-> 33,
      length |-> None, trim_n |-> FALSE, length_tag |-> None,
      strip_suffix |-> << >>, prefix |-> << >>, suffix |-> << >>,
      rename |-> None, zero_cap |-> FALSE,
      minimum_length |-> None, maximum_length |-> None,
      max_n |-> None, max_expected_errors |-> None,
      discard_trimmed |-> FALSE, discard_untrimmed |-> FALSE,
      discard_casava |-> FALSE,
      output |-> None, paired_output |-> None, fasta |-> FALSE,
      info_file |-> None, rest_file |-> None, wildcard_file |-> None,
      too_short_output |-> None, too_long_output |-> None,
      untrimmed_output |-> None, untrimmed_paired_output |-> None,
      too_short_paired_output |-> None, too_long_paired_output |-> None,
      pair_filter |-> None, interleaved |-> FALSE,
      inputs |-> << >> ]

-----------------------------------------------------------------------------
(* Parsing of option values                                                *)

Digits == {"0", "1", "2", "3", "4", "5", "6", "7", "8", "9"}

DigitVal(c) ==
    CASE c = "0" -> 0 [] c = "1" -> 1 [] c = "2" -> 2 [] c = "3" -> 3
      [] c = "4" -> 4 [] c = "5" -> 5 [] c = "6" -> 6 [] c = "7" -> 7
      [] c = "8" -> 8 [] c = "9" -> 9

\* s.split(sep): the fields between the separators, empty fields included
RECURSIVE StrSplit(_, _)
StrSplit(s, sep) ==
    IF \A i \in 1..Len(s) : s[i] # sep
    THEN <<s>>
    ELSE LET k == CHOOSE i \in 1..Len(s) :
                      s[i] = sep /\ \A j \in 1..(i - 1) : s[j] # sep
         IN  <<SubSeq(s, 1, k - 1)>> \o StrSplit(SubSeq(s, k + 1, Len(s)), sep)

\* int(f) succeeds: an optional sign followed by at least one digit
\* (over the alphabet of digits, "-", the separators and other characters)
IsIntLiteral(f) ==
    LET body == IF f # << >> /\ f[1] = "-" THEN Tail(f) ELSE f
    IN  body # << >> /\ \A i \in 1..Len(body) : body[i] \in Digits

RECURSIVE NatOf(_)
NatOf(ds) ==
    IF ds = << >> THEN 0
    ELSE 10 * NatOf(SubSeq(ds, 1, Len(ds) - 1)) + DigitVal(ds[Len(ds)])

\* int(f) for a field that IsIntLiteral accepts
IntOf(f) == IF f[1] = "-" THEN 0 - NatOf(Tail(f)) ELSE NatOf(f)

\* parse_cutoffs: [err, value]; value is the pair (5' cutoff, 3' cutoff)
parse_cutoffs(s) ==
    LET fields == StrSplit(s, ",")
    IN  IF \E i \in 1..Len(fields) : ~IsIntLiteral(fields[i])
        THEN [err |-> "CommandLineError", value |-> << >>]
        ELSE LET cutoffs == [i \in 1..Len(fields) |-> IntOf(fields[i])]
             IN  IF Len(cutoffs) = 1
                 THEN [err |-> "none", value |-> <<0, cutoffs[1]>>]
                 ELSE IF Len(cutoffs) # 2
                 THEN [err |-> "CommandLineError", value |-> << >>]
                 ELSE [err |-> "none", value |-> <<cutoffs[1], cutoffs[2]>>]

\* parse_lengths: [err, value]; value is a tuple of Optional ints
parse_lengths(s) ==
    LET fields == StrSplit(s, ":")
    IN  IF Len(fields) \notin {1, 2}
        THEN [err |-> "CommandLineError", value |-> << >>]
        ELSE IF \E i \in 1..Len(fields) :
                    fields[i] # << >> /\ ~IsIntLiteral(fields[i])
        THEN [err |-> "CommandLineError", value |-> << >>]
        ELSE LET values == [i \in 1..Len(fields) |->
                               IF fields[i] # << >> THEN Some(IntOf(fields[i]))
                                                    ELSE None]
             IN  IF Len(values) = 2 /\ IsNone(values[1]) /\ IsNone(values[2])
                 THEN [err |-> "CommandLineError", value |-> << >>]
                 ELSE [err |-> "none", value |-> values]

-----------------------------------------------------------------------------
(* Mode detection and option checks                                        *)

\* The mode without the check that {name} appears in both -o and -p
determine_demultiplex_mode_unchecked(a) ==
    IF ~IsNone(a.output) /\ Contains(Val(a.output), "{name}")
    THEN [err |-> "none", mode |-> "normal"]
    ELSE IF /\ ~IsNone(a.output)
            /\ ~IsNone(a.paired_output)
            /\ Contains(Val(a.output), "{name1}")
            /\ Contains(Val(a.output), "{name2}")
            /\ Contains(Val(a.paired_output), "{name1}")
            /\ Contains(Val(a.paired_output), "{name2}")
    THEN [err |-> "none", mode |-> "combinatorial"]
    ELSE [err |-> "none", mode |-> "False"]

\* determine_demultiplex_mode: [err, mode], mode in "normal", "combinatorial",
\* "False"
determine_demultiplex_mode(a) ==
    LET demultiplex == ~IsNone(a.output) /\ Contains(Val(a.output), "{name}")
        demultiplex_combinatorial ==
            /\ ~IsNone(a.output)
            /\ ~IsNone(a.paired_output)
            /\ Contains(Val(a.output), "{name1}")
            /\ Contains(Val(a.output), "{name2}")
            /\ Contains(Val(a.paired_output), "{name1}")
            /\ Contains(Val(a.paired_output), "{name2}")
    IN  IF ~IsNone(a.paired_output)
           /\ demultiplex # Contains(Val(a.paired_output), "{name}")
        THEN [err |-> "CommandLineError", mode |-> "False"]
        ELSE IF demultiplex /\ demultiplex_combinatorial
        THEN [err |-> "CommandLineError", mode |-> "False"]
        ELSE IF demultiplex THEN [err |-> "none", mode |-> "normal"]
        ELSE IF demultiplex_combinatorial
        THEN [err |-> "none", mode |-> "combinatorial"]
        ELSE [err |-> "none", mode |-> "False"]

\* The test for paired-end mode that does not look at -Q
determine_paired_ignoring_Q(a) ==
    \/ Truthy(a.paired_output)
    \/ a.interleaved
    \/ NonEmpty(a.adapters2)
    \/ NonEmpty(a.cut2)
    \/ ~IsNone(a.pair_filter)    \* one of the choices any, both, first
    \/ Truthy(a.untrimmed_paired_output)
    \/ Truthy(a.too_short_paired_output)
    \/ Truthy(a.too_long_paired_output)

\* determine_paired
determine_paired(a) ==
    \/ Truthy(a.paired_output)
    \/ a.interleaved
    \/ NonEmpty(a.adapters2)
    \/ NonEmpty(a.cut2)
    \/ ~IsNone(a.pair_filter)    \* one of the choices any, both, first
    \/ Truthy(a.untrimmed_paired_output)
    \/ Truthy(a.too_short_paired_output)
    \/ Truthy(a.too_long_paired_output)
    \/ Truthy(a.quality_cutoff2)

\* setup_input_files: [err, value]; value = (input_filename,
\* input_paired_filename)
setup_input_files(inputs, isPaired, interleaved) ==
    IF Len(inputs) = 0 \/ Len(inputs) > 2
    THEN [err |-> "CommandLineError", value |-> << >>]
    ELSE IF isPaired /\ ~interleaved
    THEN IF Len(inputs) = 1
         THEN [err |-> "CommandLineError", value |-> << >>]
         ELSE [err |-> "none", value |-> <<Some(inputs[1]), Some(inputs[2])>>]
    ELSE IF Len(inputs) = 2
         THEN [err |-> "CommandLineError", value |-> << >>]
         ELSE [err |-> "none", value |-> <<Some(inputs[1]), None>>]

\* check_arguments: the error it raises, "none" when it returns
check_arguments(a, isPaired) ==
    IF ~isPaired /\ Truthy(a.untrimmed_paired_output) THEN "CommandLineError"
    ELSE IF ~isPaired /\ a.pair_adapters THEN "CommandLineError"
    ELSE IF isPaired /\ ~a.interleaved /\ ~Truthy(a.paired_output)
    THEN "CommandLineError"
    ELSE IF isPaired /\ ~a.interleaved /\ ~Truthy(a.output)
    THEN "CommandLineError"
    ELSE IF /\ isPaired /\ ~a.interleaved
            /\ \/ Truthy(a.untrimmed_output) # Truthy(a.untrimmed_paired_output)
               \/ Truthy(a.too_short_output) # Truthy(a.too_short_paired_output)
               \/ Truthy(a.too_long_output) # Truthy(a.too_long_paired_output)
    THEN "CommandLineError"
    ELSE IF a.overlap < 1 THEN "CommandLineError"
    ELSE IF ~(0 <= a.gc_content /\ a.gc_content <= 100) THEN "CommandLineError"
    ELSE IF a.pair_adapters /\ a.times # 1 THEN "CommandLineError"
    ELSE "none"

-----------------------------------------------------------------------------
(* Adapters                                                                *)

\* AdapterParser.parse_multi: one Adapter per specification (type, name);
\* `fault` is the exception the parser raises ("none": it returns)
parse_multi(specs, fault) ==
    IF fault # "none" /\ NonEmpty(specs)
    THEN [err |-> fault, value |-> << >>]
    ELSE [err |-> "none",
          value |-> [i \in 1..Len(specs) |->
                        [name |-> specs[i].name, where |-> specs[i].where]]]

\* adapters_from_args: [err, adapters, adapters2]
adapters_from_args(a, fault) ==
    LET r1 == parse_multi(a.adapters, fault)
        r2 == parse_multi(a.adapters2, fault)
    IN  IF r1.err \in {"FileNotFoundError", "ValueError", "InvalidCharacter"}
        THEN [err |-> "CommandLineError", adapters |-> << >>, adapters2 |-> << >>]
        ELSE IF r2.err \in {"FileNotFoundError", "ValueError", "InvalidCharacter"}
        THEN [err |-> "CommandLineError", adapters |-> << >>, adapters2 |-> << >>]
        ELSE [err |-> "none", adapters |-> r1.value, adapters2 |-> r2.value]

\* [a.name for a in adapters]
AdapterNames(ads) == [i \in 1..Len(ads) |-> ads[i].name]

-----------------------------------------------------------------------------
(* Modifiers and the pipeline's list of steps                              *)

\* A modifier object: its class, its constructor arguments, and whether it is
\* a freshly constructed object or a copy.copy of one.
Modifier(cls, param) == [cls |-> cls, param |-> param, obj |-> "new"]

CopyOf(m) == IF IsNone(m) THEN None ELSE Some([Val(m) EXCEPT !.obj = "copy"])

\* One entry of the pipeline's modifier list: the modifier for R1, the one
\* for R2 and, for a modifier that sees both reads at once, `pair`.
Step(m1, m2) == [r1 |-> m1, r2 |-> m2, pair |-> None]

PairStep(m) == [r1 |-> None, r2 |-> None, pair |-> Some(m)]

\* SingleEndPipeline.add(modifier)
SingleAdd(m) == Step(Some(m), None)

\* PairedEndPipeline.add(modifier1, modifier2)
PairedAdd(m1, m2) == Step(m1, m2)

\* PairedEndPipeline.add_both(modifier)
PairedAddBoth(m) == Step(Some(m), CopyOf(Some(m)))

\* PairedEndPipeline.add_paired_modifier(modifier)
AddPairedModifier(m) == PairStep(m)

\* pipeline_add = pipeline.add_both if paired else pipeline.add
pipeline_add(isPaired, m) == IF isPaired THEN PairedAddBoth(m) ELSE SingleAdd(m)

\* The class of the modifier(s) a step holds
StepClass(st) ==
    IF ~IsNone(st.pair) THEN Val(st.pair).cls
    ELSE IF ~IsNone(st.r1) THEN Val(st.r1).cls
    ELSE IF ~IsNone(st.r2) THEN Val(st.r2).cls
    ELSE "None"

\* The steps one -u / -U list installs: the loop body of
\* add_unconditional_cutters for list number i (0: R1, 1: R2)
RECURSIVE CutterSteps(_, _, _)
CutterSteps(cls, i, cut_arg) ==
    IF cut_arg = << >> THEN << >>
    ELSE LET c == cut_arg[1]
             rest == CutterSteps(cls, i, Tail(cut_arg))
         IN  IF c = 0 THEN rest
             ELSE IF i = 0
             THEN IF cls = "PairedEndPipeline"
                  THEN <<PairedAdd(Some(Modifier("UnconditionalCutter", <<c>>)), None)>>
                       \o rest
                  ELSE <<SingleAdd(Modifier("UnconditionalCutter", <<c>>))>> \o rest
             ELSE <<PairedAdd(None, Some(Modifier("UnconditionalCutter", <<c>>)))>>
                  \o rest

\* The exception one -u / -U list raises when two lengths of the same sign
\* are let through
CutterErrorNoSignCheck(cls, i, cut_arg) ==
    IF cut_arg = << >> THEN "none"
    ELSE IF Len(cut_arg) > 2 THEN "CommandLineError"
    ELSE IF \E k \in 1..Len(cut_arg) : cut_arg[k] # 0
    THEN IF i = 0 /\ cls \notin {"PairedEndPipeline", "SingleEndPipeline"}
         THEN "AssertionError"
         ELSE IF i = 1 /\ cls # "PairedEndPipeline" THEN "AssertionError"
         ELSE "none"
    ELSE "none"

\* The exception one -u / -U list raises
CutterError(cls, i, cut_arg) ==
    IF cut_arg = << >> THEN "none"
    ELSE IF Len(cut_arg) > 2 THEN "CommandLineError"
    ELSE IF Len(cut_arg) = 2 /\ cut_arg[1] * cut_arg[2] > 0 THEN "CommandLineError"
    ELSE IF \E k \in 1..Len(cut_arg) : cut_arg[k] # 0
    THEN IF i = 0 /\ cls \notin {"PairedEndPipeline", "SingleEndPipeline"}
         THEN "AssertionError"
         ELSE IF i = 1 /\ cls # "PairedEndPipeline" THEN "AssertionError"
         ELSE "none"
    ELSE "none"

\* add_unconditional_cutters: [err, steps]
add_unconditional_cutters(cls, cut1, cut2) ==
    IF CutterError(cls, 0, cut1) # "none"
    THEN [err |-> CutterError(cls, 0, cut1), steps |-> << >>]
    ELSE IF CutterError(cls, 1, cut2) # "none"
    THEN [err |-> CutterError(cls, 1, cut2), steps |-> << >>]
    ELSE [err |-> "none",
          steps |-> CutterSteps(cls, 0, cut1) \o CutterSteps(cls, 1, cut2)]

\* One element of the list `qtrimmers`: [err, value: Optional QualityTrimmer]
QTrimmer(cutoff, quality_base) ==
    IF ~IsNone(cutoff) /\ Val(cutoff) # <<"0">>
    THEN LET r == parse_cutoffs(Val(cutoff))
         IN  IF r.err # "none" THEN [err |-> r.err, value |-> None]
             ELSE [err |-> "none",
                   value |-> Some(Modifier("QualityTrimmer",
                                           <<r.value[1], r.value[2], quality_base>>))]
    ELSE [err |-> "none", value |-> None]

\* add_quality_trimmers in which R2 gets a trimmer only from its own cutoff
add_quality_trimmers_without_default(cls, cutoff1, cutoff2, quality_base) ==
    LET q1 == QTrimmer(cutoff1, quality_base)
        q2 == QTrimmer(cutoff2, quality_base)
    IN  IF q1.err # "none" THEN [err |-> q1.err, steps |-> << >>]
        ELSE IF q2.err # "none" THEN [err |-> q2.err, steps |-> << >>]
        ELSE IF cls = "PairedEndPipeline"
        THEN IF ~IsNone(q1.value) \/ ~IsNone(q2.value)
             THEN [err |-> "none", steps |-> <<PairedAdd(q1.value, q2.value)>>]
             ELSE [err |-> "none", steps |-> << >>]
        ELSE IF ~IsNone(q1.value)
        THEN [err |-> "none", steps |-> <<SingleAdd(Val(q1.value))>>]
        ELSE [err |-> "none", steps |-> << >>]

\* add_quality_trimmers: [err, steps]
add_quality_trimmers(cls, cutoff1, cutoff2, quality_base) ==
    LET q1 == QTrimmer(cutoff1, quality_base)
        q2 == QTrimmer(cutoff2, quality_base)
    IN  IF q1.err # "none" THEN [err |-> q1.err, steps |-> << >>]
        ELSE IF q2.err # "none" THEN [err |-> q2.err, steps |-> << >>]
        ELSE IF cls = "PairedEndPipeline"
        THEN LET second == IF ~IsNone(cutoff1) /\ IsNone(cutoff2)
                           THEN CopyOf(q1.value) ELSE q2.value
             IN  IF ~IsNone(q1.value) \/ ~IsNone(second)
                 THEN [err |-> "none", steps |-> <<PairedAdd(q1.value, second)>>]
                 ELSE [err |-> "none", steps |-> << >>]
        ELSE IF ~IsNone(q1.value)
        THEN IF cls # "SingleEndPipeline"
             THEN [err |-> "AssertionError", steps |-> << >>]
             ELSE [err |-> "none", steps |-> <<SingleAdd(Val(q1.value))>>]
        ELSE [err |-> "none", steps |-> << >>]

\* PairedAdapterCutter(adapters1, adapters2, action) raises
\* PairedAdapterCutterError unless adapter i of R1 has a partner i of R2
PairedAdapterCutterFails(ads, ads2) == Len(ads) # Len(ads2) \/ Len(ads) = 0

\* The suffix configured whatever add_rc_suffix is
RcSuffixAlways(add_rc_suffix) == Some(" rc")

\* rc_suffix=" rc" if add_rc_suffix else None
RcSuffix(add_rc_suffix) == IF add_rc_suffix THEN Some(" rc") ELSE None

\* add_adapter_cutter: [err, steps]; `fault` is what the AdapterCutter
\* constructor raises ("none": it returns)
add_adapter_cutter(ads, ads2, isPaired, pair_adapters, action, times, reverse_complement, add_rc_suffix, fault) ==
    IF pair_adapters
    THEN IF reverse_complement THEN [err |-> "CommandLineError", steps |-> << >>]
         ELSE IF PairedAdapterCutterFails(ads, ads2)
         THEN [err |-> "CommandLineError", steps |-> << >>]
         ELSE [err |-> "none",
               steps |-> <<AddPairedModifier(
                              Modifier("PairedAdapterCutter",
                                       <<AdapterNames(ads), AdapterNames(ads2), action>>))>>]
    ELSE LET adapter_cutter ==
                 IF NonEmpty(ads)
                 THEN Some(Modifier("AdapterCutter", <<AdapterNames(ads), times, action>>))
                 ELSE None
             adapter_cutter2 ==
                 IF NonEmpty(ads2)
                 THEN Some(Modifier("AdapterCutter", <<AdapterNames(ads2), times, action>>))
                 ELSE None
         IN  IF fault = "ValueError" /\ (NonEmpty(ads) \/ NonEmpty(ads2))
             THEN [err |-> "CommandLineError", steps |-> << >>]
             ELSE IF isPaired
             THEN IF reverse_complement
                  THEN [err |-> "CommandLineError", steps |-> << >>]
                  ELSE IF ~IsNone(adapter_cutter) \/ ~IsNone(adapter_cutter2)
                  THEN [err |-> "none",
                        steps |-> <<PairedAdd(adapter_cutter, adapter_cutter2)>>]
                  ELSE [err |-> "none", steps |-> << >>]
             ELSE IF ~IsNone(adapter_cutter)
             THEN IF reverse_complement
                  THEN [err |-> "none",
                        steps |-> <<SingleAdd(
                            Modifier("ReverseComplementer",
                                     <<Val(adapter_cutter), RcSuffix(add_rc_suffix)>>))>>]
                  ELSE [err |-> "none", steps |-> <<SingleAdd(Val(adapter_cutter))>>]
             ELSE [err |-> "none", steps |-> << >>]

\* modifiers_applying_to_both_ends_if_paired with the N-end trimmer yielded
\* before the shortener
modifiers_trim_n_first(a) ==
    (IF a.trim_n THEN <<Modifier("NEndTrimmer", << >>)>> ELSE << >>)
    \o (IF ~IsNone(a.length) THEN <<Modifier("Shortener", <<Val(a.length)>>)>> ELSE << >>)
    \o (IF Truthy(a.length_tag)
        THEN <<Modifier("LengthTagModifier", <<Val(a.length_tag)>>)>> ELSE << >>)
    \o [i \in 1..Len(a.strip_suffix) |-> Modifier("SuffixRemover", <<a.strip_suffix[i]>>)]
    \o (IF NonEmpty(a.prefix) \/ NonEmpty(a.suffix)
        THEN <<Modifier("PrefixSuffixAdder", <<a.prefix, a.suffix>>)>> ELSE << >>)
    \o (IF a.zero_cap THEN <<Modifier("ZeroCapper", <<a.quality_base>>)>> ELSE << >>)

\* modifiers_applying_to_both_ends_if_paired: the modifiers it yields
modifiers_applying_to_both_ends_if_paired(a) ==
    (IF ~IsNone(a.length) THEN <<Modifier("Shortener", <<Val(a.length)>>)>> ELSE << >>)
    \o (IF a.trim_n THEN <<Modifier("NEndTrimmer", << >>)>> ELSE << >>)
    \o (IF Truthy(a.length_tag)
        THEN <<Modifier("LengthTagModifier", <<Val(a.length_tag)>>)>> ELSE << >>)
    \o [i \in 1..Len(a.strip_suffix) |-> Modifier("SuffixRemover", <<a.strip_suffix[i]>>)]
    \o (IF NonEmpty(a.prefix) \/ NonEmpty(a.suffix)
        THEN <<Modifier("PrefixSuffixAdder", <<a.prefix, a.suffix>>)>> ELSE << >>)
    \o (IF a.zero_cap THEN <<Modifier("ZeroCapper", <<a.quality_base>>)>> ELSE << >>)

-----------------------------------------------------------------------------
(* Renaming templates                                                      *)

\* The variables a --rename template may use (single-end Renamer)
RenamerVariables ==
    {"{id}", "{header}", "{comment}", "{adapter_name}", "{match_sequence}",
     "{cut_prefix}", "{cut_suffix}", "{rc}"}

\* The paired variant also exposes the _1 / _2 suffixed variables
PairedRenamerVariables ==
    RenamerVariables \cup
    {"{comment_1}", "{comment_2}", "{adapter_name_1}", "{adapter_name_2}",
     "{cut_prefix_1}", "{cut_prefix_2}", "{cut_suffix_1}", "{cut_suffix_2}"}

\* Every "{...}" token a template of the model can hold; any other token is
\* literal text
TemplateFields == PairedRenamerVariables \cup {"{name}", "{nosuchvariable}"}

\* Renamer(template) / PairedEndRenamer(template) raises InvalidTemplate
InvalidTemplate(template, isPaired) ==
    \E i \in 1..Len(template) :
        /\ template[i] \in TemplateFields
        /\ template[i] \notin
               (IF isPaired THEN PairedRenamerVariables ELSE RenamerVariables)

-----------------------------------------------------------------------------
(* pipeline_from_parsed_args                                               *)

\* The pair filter mode with 'both' as the default
PairFilterModeDefaultBoth(a) ==
    IF IsNone(a.pair_filter) THEN "both" ELSE Val(a.pair_filter)

\* pair_filter_mode = 'any' if args.pair_filter is None else args.pair_filter
PairFilterMode(a) == IF IsNone(a.pair_filter) THEN "any" ELSE Val(a.pair_filter)

\* The pipeline is a SingleEndPipeline whatever the mode
PipelineClassAlwaysSingle(isPaired) == "SingleEndPipeline"

\* The class of the pipeline object that is created
PipelineClass(isPaired) ==
    IF isPaired THEN "PairedEndPipeline" ELSE "SingleEndPipeline"

\* The override with `and` in the place of `or` between the two adapter lists
OverrideWhenNoAdapters(cls, a, ads, ads2) ==
    /\ cls = "PairedEndPipeline"
    /\ (~NonEmpty(ads2) /\ ~NonEmpty(ads))
    /\ (a.discard_untrimmed \/ Truthy(a.untrimmed_output)
        \/ Truthy(a.untrimmed_paired_output))

\* pipeline.override_untrimmed_pair_filter after the statement that sets it
OverrideUntrimmedPairFilter(cls, a, ads, ads2) ==
    /\ cls = "PairedEndPipeline"
    /\ (~NonEmpty(ads2) \/ ~NonEmpty(ads))
    /\ (a.discard_untrimmed \/ Truthy(a.untrimmed_output)
        \/ Truthy(a.untrimmed_paired_output))

\* The NextSeq trimmer step
NextseqSteps(a, isPaired) ==
    IF ~IsNone(a.nextseq_trim)
    THEN <<pipeline_add(isPaired,
                        Modifier("NextseqQualityTrimmer",
                                 <<Val(a.nextseq_trim), a.quality_base>>))>>
    ELSE << >>

\* for modifier in modifiers_applying_to_both_ends_if_paired(args):
\*     pipeline_add(modifier)
BothEndsSteps(a, isPaired) ==
    LET ms == modifiers_applying_to_both_ends_if_paired(a)
    IN  [i \in 1..Len(ms) |-> pipeline_add(isPaired, ms[i])]

\* The renamer step: [err, steps]
RenamerSteps(a, isPaired) ==
    IF Truthy(a.rename) /\ (NonEmpty(a.prefix) \/ NonEmpty(a.suffix))
    THEN [err |-> "CommandLineError", steps |-> << >>]
    ELSE IF Truthy(a.rename) /\ Val(a.rename) # <<"{header}">>
    THEN IF InvalidTemplate(Val(a.rename), isPaired)
         THEN [err |-> "CommandLineError", steps |-> << >>]
         ELSE IF isPaired
         THEN [err |-> "none",
               steps |-> <<AddPairedModifier(
                              Modifier("PairedEndRenamer", <<Val(a.rename)>>))>>]
         ELSE [err |-> "none",
               steps |-> <<pipeline_add(isPaired,
                                        Modifier("Renamer", <<Val(a.rename)>>))>>]
    ELSE [err |-> "none", steps |-> << >>]

\* The modifier list in the order the statements of pipeline_from_parsed_args
\* add to it: [err, steps]
PipelineSteps(a, isPaired, ads, ads2, fault) ==
    LET cls == PipelineClass(isPaired)
        action == IF a.action = Some("none") THEN None ELSE a.action
        cutters == add_unconditional_cutters(cls, a.cut, a.cut2)
        quality == add_quality_trimmers(cls, a.quality_cutoff, a.quality_cutoff2,
                                        a.quality_base)
        cutter == add_adapter_cutter(ads, ads2, isPaired, a.pair_adapters, action,
                                     a.times, a.reverse_complement,
                                     ~Truthy(a.rename), fault)
        renamer == RenamerSteps(a, isPaired)
    IN  IF cutters.err # "none" THEN [err |-> cutters.err, steps |-> << >>]
        ELSE IF quality.err # "none" THEN [err |-> quality.err, steps |-> << >>]
        ELSE IF cutter.err # "none" THEN [err |-> cutter.err, steps |-> << >>]
        ELSE IF renamer.err # "none" THEN [err |-> renamer.err, steps |-> << >>]
        ELSE [err |-> "none",
              steps |-> cutters.steps \o NextseqSteps(a, isPaired) \o quality.steps
                        \o cutter.steps \o BothEndsSteps(a, isPaired)
                        \o renamer.steps]

\* The parsed lengths taken as they are, whatever the kind of input
LengthParamAsParsed(param, isPaired) ==
    IF IsNone(param) THEN [err |-> "none", value |-> None]
    ELSE LET r == parse_lengths(Val(param))
         IN  IF r.err # "none" THEN [err |-> r.err, value |-> None]
             ELSE [err |-> "none", value |-> Some(r.value)]

\* The value set for pipeline.minimum_length / maximum_length: [err, value]
LengthParam(param, isPaired) ==
    IF IsNone(param) THEN [err |-> "none", value |-> None]
    ELSE LET r == parse_lengths(Val(param))
         IN  IF r.err # "none" THEN [err |-> r.err, value |-> None]
             ELSE IF ~isPaired /\ Len(r.value) = 2
             THEN [err |-> "CommandLineError", value |-> None]
             ELSE IF isPaired /\ Len(r.value) = 1
             THEN [err |-> "none", value |-> Some(<<r.value[1], r.value[1]>>)]
             ELSE [err |-> "none", value |-> Some(r.value)]

\* The filtering parameters with the two discard options mixed up
FilterParametersMixedUp(a) ==
    [max_n |-> a.max_n,
     max_expected_errors |-> a.max_expected_errors,
     discard_casava |-> a.discard_casava,
     discard_trimmed |-> a.discard_untrimmed,
     discard_untrimmed |-> a.discard_trimmed]

\* The filtering parameters copied from the options to the pipeline
FilterParameters(a) ==
    [max_n |-> a.max_n,
     max_expected_errors |-> a.max_expected_errors,
     discard_casava |-> a.discard_casava,
     discard_trimmed |-> a.discard_trimmed,
     discard_untrimmed |-> a.discard_untrimmed]

\* pipeline_from_parsed_args: [err, value: the Pipeline]
pipeline_from_parsed_args(a, isPaired, ads, ads2, fault) ==
    LET cls == PipelineClass(isPaired)
        built == PipelineSteps(a, isPaired, ads, ads2, fault)
        minlen == LengthParam(a.minimum_length, isPaired)
        maxlen == LengthParam(a.maximum_length, isPaired)
    IN  IF built.err # "none" THEN [err |-> built.err, value |-> None]
        ELSE IF minlen.err # "none" THEN [err |-> minlen.err, value |-> None]
        ELSE IF maxlen.err # "none" THEN [err |-> maxlen.err, value |-> None]
        ELSE [err |-> "none",
              value |-> Some(
                [cls |-> cls,
                 paired |-> cls = "PairedEndPipeline",
                 pair_filter_mode |->
                     IF isPaired THEN Some(PairFilterMode(a)) ELSE None,
                 override_untrimmed_pair_filter |->
                     OverrideUntrimmedPairFilter(cls, a, ads, ads2),
                 modifiers |-> built.steps,
                 minimum_length |-> minlen.value,
                 maximum_length |-> maxlen.value,
                 max_n |-> FilterParameters(a).max_n,
                 max_expected_errors |-> FilterParameters(a).max_expected_errors,
                 discard_casava |-> FilterParameters(a).discard_casava,
                 discard_trimmed |-> FilterParameters(a).discard_trimmed,
                 discard_untrimmed |-> FilterParameters(a).discard_untrimmed])]

-----------------------------------------------------------------------------
(* Output files.  An open file is represented by the path it was opened    *)
(* at; a dict is a function from its keys to the open files.               *)

\* FileOpener.xopen_or_none(path, "wb"): the paths it opens
OpenedBy(path) == IF IsNone(path) THEN {} ELSE {Val(path)}

\* Path template of combinatorial demultiplexing filled in for one key
CombinatorialPath(template, name1, name2) ==
    LET fname1 == IF ~IsNone(name1) THEN Val(name1) ELSE "unknown"
        fname2 == IF ~IsNone(name2) THEN Val(name2) ELSE "unknown"
    IN  StrReplace(StrReplace(template, "{name1}", fname1), "{name2}", fname2)

\* The keys without those of the pairs in which one read has no match
CombinatorialKeysWithoutHalfMatches(adapter_names, adapter_names2, discard_untrimmed) ==
    {<<Some(n1), Some(n2)>> : n1 \in Range(adapter_names), n2 \in Range(adapter_names2)}
    \cup (IF discard_untrimmed THEN {} ELSE {<<None, None>>})

\* The keys open_combinatorial_out opens files for
CombinatorialKeys(adapter_names, adapter_names2, discard_untrimmed) ==
    LET product == {<<Some(n1), Some(n2)>> :
                        n1 \in Range(adapter_names), n2 \in Range(adapter_names2)}
        extra == IF discard_untrimmed THEN {}
                 ELSE {<<None, None>>}
                      \cup {<<None, Some(n2)>> : n2 \in Range(adapter_names2)}
                      \cup {<<Some(n1), None>> : n1 \in Range(adapter_names)}
    IN  product \cup extra

\* open_combinatorial_out: [err, out, out2, untrimmed, untrimmed2, opened]
open_combinatorial_out(adapter_names, adapter_names2, a) ==
    LET keys == CombinatorialKeys(adapter_names, adapter_names2, a.discard_untrimmed)
        out == [k \in keys |-> CombinatorialPath(Val(a.output), k[1], k[2])]
        out2 == [k \in keys |-> CombinatorialPath(Val(a.paired_output), k[1], k[2])]
        files == {out[k] : k \in keys} \cup {out2[k] : k \in keys}
    IN  IF Truthy(a.untrimmed_output) \/ Truthy(a.untrimmed_paired_output)
        THEN [err |-> "CommandLineError", out |-> None, out2 |-> None,
              untrimmed |-> None, untrimmed2 |-> None, opened |-> files]
        ELSE [err |-> "none", out |-> Some(out), out2 |-> Some(out2),
              untrimmed |-> None, untrimmed2 |-> None, opened |-> files]

\* The path of the bin for reads without a match when the option that names
\* it is ignored
UntrimmedPathFromTemplate(given, template) ==
    StrReplace(template, "{name}", "unknown")

\* untrimmed_path / untrimmed2_path of open_demultiplex_out
UntrimmedPath(given, template) ==
    IF Truthy(given) THEN Val(given) ELSE StrReplace(template, "{name}", "unknown")

\* open_demultiplex_out: [out, out2, untrimmed, untrimmed2, opened]
open_demultiplex_out(adapter_names, a) ==
    LET names == Range(adapter_names)
        out == [n \in names |-> StrReplace(Val(a.output), "{name}", n)]
        out2 == IF ~IsNone(a.paired_output)
                THEN Some([n \in names |-> StrReplace(Val(a.paired_output), "{name}", n)])
                ELSE None
        untrimmed_path == UntrimmedPath(a.untrimmed_output, Val(a.output))
        untrimmed == IF a.discard_untrimmed THEN None ELSE Some(untrimmed_path)
        untrimmed2 ==
            IF ~IsNone(a.paired_output)
            THEN LET untrimmed2_path ==
                         UntrimmedPath(a.untrimmed_paired_output, Val(a.paired_output))
                 IN  IF a.discard_untrimmed THEN None ELSE Some(untrimmed2_path)
            ELSE None
    IN  [out |-> Some(out), out2 |-> out2,
         untrimmed |-> untrimmed, untrimmed2 |-> untrimmed2,
         opened |-> {out[n] : n \in names}
                    \cup (IF IsNone(out2) THEN {} ELSE {Val(out2)[n] : n \in names})
                    \cup OpenedBy(untrimmed) \cup OpenedBy(untrimmed2)]

\* The file default_outfile of main (sys.stdout.buffer)
DefaultOutfile == <<"<stdout>">>

\* The side files with the files for too short and too long reads opened
\* whenever they are named
SideFilesOpenedWheneverNamed(a) ==
    OpenedBy(a.rest_file) \cup OpenedBy(a.info_file) \cup OpenedBy(a.wildcard_file)
    \cup OpenedBy(a.too_short_output) \cup OpenedBy(a.too_short_paired_output)
    \cup OpenedBy(a.too_long_output) \cup OpenedBy(a.too_long_paired_output)

\* The side files opened before the option checks of open_output_files
SideFilesOpened(a) ==
    OpenedBy(a.rest_file) \cup OpenedBy(a.info_file) \cup OpenedBy(a.wildcard_file)
    \cup (IF ~IsNone(a.minimum_length)
          THEN OpenedBy(a.too_short_output) \cup OpenedBy(a.too_short_paired_output)
          ELSE {})
    \cup (IF ~IsNone(a.maximum_length)
          THEN OpenedBy(a.too_long_output) \cup OpenedBy(a.too_long_paired_output)
          ELSE {})

\* The OutputFiles object for given main targets
OutputFiles(a, untrimmed, untrimmed2, out, out2, demultiplex_out, demultiplex_out2, combinatorial_out, combinatorial_out2) ==
    [rest |-> a.rest_file, info |-> a.info_file, wildcard |-> a.wildcard_file,
     too_short |-> IF ~IsNone(a.minimum_length) THEN a.too_short_output ELSE None,
     too_short2 |-> IF ~IsNone(a.minimum_length) THEN a.too_short_paired_output ELSE None,
     too_long |-> IF ~IsNone(a.maximum_length) THEN a.too_long_output ELSE None,
     too_long2 |-> IF ~IsNone(a.maximum_length) THEN a.too_long_paired_output ELSE None,
     untrimmed |-> untrimmed, untrimmed2 |-> untrimmed2,
     out |-> out, out2 |-> out2,
     demultiplex_out |-> demultiplex_out, demultiplex_out2 |-> demultiplex_out2,
     combinatorial_out |-> combinatorial_out, combinatorial_out2 |-> combinatorial_out2,
     force_fasta |-> a.fasta]

\* The count that leaves --untrimmed-output out
DiscardOptionsGivenIgnoringUntrimmedOutput(a) ==
    (IF a.discard_trimmed THEN 1 ELSE 0) + (IF a.discard_untrimmed THEN 1 ELSE 0)

\* int(args.discard_trimmed) + int(args.discard_untrimmed)
\* + int(args.untrimmed_output is not None)
DiscardOptionsGiven(a) ==
    (IF a.discard_trimmed THEN 1 ELSE 0)
    + (IF a.discard_untrimmed THEN 1 ELSE 0)
    + (IF ~IsNone(a.untrimmed_output) THEN 1 ELSE 0)

\* open_output_files: [err, value: Optional OutputFiles, opened: the paths
\* opened for writing before it returned or raised]; `fault` is what the
\* FileOpener raises at the first file it opens ("none": every open succeeds)
open_output_files(a, adapter_names, adapter_names2, fault) ==
    LET side == SideFilesOpened(a)
        mode == determine_demultiplex_mode(a)
        Raise(e, files) == [err |-> e, value |-> None, opened |-> files]
    IN  IF fault # "none" /\ side # {} THEN Raise(fault, {})
        ELSE IF DiscardOptionsGiven(a) > 1
        THEN Raise("CommandLineError", side)
        ELSE IF mode.err # "none" THEN Raise(mode.err, side)
        ELSE IF mode.mode # "False" /\ a.discard_trimmed
        THEN Raise("CommandLineError", side)
        ELSE IF mode.mode = "normal"
        THEN LET d == open_demultiplex_out(adapter_names, a)
             IN  IF fault # "none" /\ d.opened # {} THEN Raise(fault, side)
                 ELSE [err |-> "none",
                       value |-> Some(OutputFiles(a, d.untrimmed, d.untrimmed2,
                                                  None, None, d.out, d.out2, None, None)),
                       opened |-> side \cup d.opened]
        ELSE IF mode.mode = "combinatorial"
        THEN IF ~(/\ Contains(Val(a.output), "{name1}")
                  /\ Contains(Val(a.output), "{name2}")
                  /\ Contains(Val(a.paired_output), "{name1}")
                  /\ Contains(Val(a.paired_output), "{name2}"))
             THEN Raise("AssertionError", side)
             ELSE LET c == open_combinatorial_out(adapter_names, adapter_names2, a)
                  IN  IF fault # "none" /\ c.opened # {} THEN Raise(fault, side)
                      ELSE IF c.err # "none" THEN Raise(c.err, side \cup c.opened)
                      ELSE [err |-> "none",
                            value |-> Some(OutputFiles(a, c.untrimmed, c.untrimmed2,
                                                       None, None, None, None,
                                                       c.out, c.out2)),
                            opened |-> side \cup c.opened]
        ELSE LET files == OpenedBy(a.untrimmed_output)
                          \cup OpenedBy(a.untrimmed_paired_output)
                          \cup OpenedBy(a.output) \cup OpenedBy(a.paired_output)
             IN  IF fault # "none" /\ files # {} THEN Raise(fault, side)
                 ELSE [err |-> "none",
                       value |-> Some(OutputFiles(
                                     a, a.untrimmed_output, a.untrimmed_paired_output,
                                     IF IsNone(a.output) THEN Some(DefaultOutfile)
                                                         ELSE a.output,
                                     a.paired_output, None, None, None, None)),
                       opened |-> side \cup files]

-----------------------------------------------------------------------------
(* Filters and output routing of one processed record (a read, or a pair   *)
(* of reads): [id, r1, r2] with r2 = None for single-end data; a read is   *)
(* [len, n, ee, casava, match] as it is after the modifiers ran: sequence  *)
(* length, number of N bases, expected errors, whether the header says the *)
(* read did not pass the CASAVA filter, and the name of the adapter that   *)
(* matched (None: no adapter matched).                                     *)

\* The filters in their order of precedence, then the two final targets
FilterOrder ==
    <<"too_short", "too_long", "max_n", "max_ee", "discard_casava",
      "discard_trimmed", "discard_untrimmed", "demultiplex", "final">>

\* Whether one read meets the criterion of filter f (meeting it means the
\* read fails the filter); `limit` is the limit that applies to this read
ReadFails(f, read, p, limit) ==
    CASE f = "too_short" -> ~IsNone(limit) /\ read.len < Val(limit)
      [] f = "too_long" -> ~IsNone(limit) /\ read.len > Val(limit)
      [] f = "max_n" -> read.n > Val(p.max_n)
      [] f = "max_ee" -> read.ee > Val(p.max_expected_errors)
      [] f = "discard_casava" -> read.casava
      [] f = "discard_trimmed" -> ~IsNone(read.match)
      [] f = "discard_untrimmed" -> IsNone(read.match)

\* PairedEndFilter: whether the pair fails, from the two reads' results
PairFails(mode, fails1, fails2) ==
    CASE mode = "any" -> fails1 \/ fails2
      [] mode = "both" -> fails1 /\ fails2
      [] mode = "first" -> fails1

\* The mode filter f runs in on paired data
FilterMode(f, p) ==
    IF f = "discard_untrimmed" /\ p.override_untrimmed_pair_filter
    THEN "both" ELSE Val(p.pair_filter_mode)

\* The length limit of filter f for read number k (1: R1, 2: R2)
LengthLimit(f, p, k) ==
    LET lengths == IF f = "too_short" THEN p.minimum_length
                   ELSE IF f = "too_long" THEN p.maximum_length ELSE None
    IN  IF IsNone(lengths) THEN None
        ELSE IF k <= Len(Val(lengths)) THEN Val(lengths)[k] ELSE None

\* Whether the pipeline installs filter f
FilterEnabled(f, p, o) ==
    CASE f = "too_short" -> ~IsNone(p.minimum_length)
      [] f = "too_long" -> ~IsNone(p.maximum_length)
      [] f = "max_n" -> ~IsNone(p.max_n)
      [] f = "max_ee" -> ~IsNone(p.max_expected_errors)
      [] f = "discard_casava" -> p.discard_casava
      [] f = "discard_trimmed" -> p.discard_trimmed
      [] f = "discard_untrimmed" ->
             p.discard_untrimmed
             \/ (~IsNone(o.untrimmed) /\ IsNone(o.demultiplex_out))
      [] OTHER -> FALSE

\* Whether the record is caught by filter f
RecordFails(f, rec, p, o) ==
    /\ FilterEnabled(f, p, o)
    /\ IF IsNone(rec.r2)
       THEN ReadFails(f, Val(rec.r1), p, LengthLimit(f, p, 1))
       ELSE PairFails(FilterMode(f, p),
                      ReadFails(f, Val(rec.r1), p, LengthLimit(f, p, 1)),
                      ReadFails(f, Val(rec.r2), p, LengthLimit(f, p, 2)))

\* The files a record caught by filter f is written to (none: dropped)
FilterTarget(f, o) ==
    CASE f = "too_short" -> OpenedBy(o.too_short) \cup OpenedBy(o.too_short2)
      [] f = "too_long" -> OpenedBy(o.too_long) \cup OpenedBy(o.too_long2)
      [] f = "discard_untrimmed" -> OpenedBy(o.untrimmed) \cup OpenedBy(o.untrimmed2)
      [] OTHER -> {}

\* The files of the demultiplexing bin, or of the main output, for a record
\* that no filter caught
FinalTarget(rec, o) ==
    IF ~IsNone(o.demultiplex_out)
    THEN LET m == Val(rec.r1).match
         IN  IF IsNone(m) THEN OpenedBy(o.untrimmed) \cup OpenedBy(o.untrimmed2)
             ELSE IF Val(m) \in DOMAIN Val(o.demultiplex_out)
             THEN {Val(o.demultiplex_out)[Val(m)]}
                  \cup (IF IsNone(o.demultiplex_out2) THEN {}
                        ELSE {Val(o.demultiplex_out2)[Val(m)]})
             ELSE {}
    ELSE IF ~IsNone(o.combinatorial_out)
    THEN LET key == <<Val(rec.r1).match,
                      IF IsNone(rec.r2) THEN None ELSE Val(rec.r2).match>>
         IN  IF key \in DOMAIN Val(o.combinatorial_out)
             THEN {Val(o.combinatorial_out)[key], Val(o.combinatorial_out2)[key]}
             ELSE {}
    ELSE OpenedBy(o.out) \cup OpenedBy(o.out2)

\* The first filter of FilterOrder from position k on that catches the
\* record; "demultiplex" or "final" when none does
RECURSIVE DecidingFilter(_, _, _, _)
DecidingFilter(k, rec, p, o) ==
    LET f == FilterOrder[k]
    IN  IF f = "demultiplex"
        THEN IF ~IsNone(o.demultiplex_out) \/ ~IsNone(o.combinatorial_out)
             THEN "demultiplex" ELSE "final"
        ELSE IF RecordFails(f, rec, p, o) THEN f
        ELSE DecidingFilter(k + 1, rec, p, o)

\* The pipeline's decision for one record: the filter (or final target) that
\* takes it and the files it is written to
Route(rec, p, o) ==
    LET f == DecidingFilter(1, rec, p, o)
    IN  [id |-> rec.id, by |-> f,
         files |-> IF f \in {"demultiplex", "final"} THEN FinalTarget(rec, o)
                   ELSE FilterTarget(f, o)]

\* Statistics: one counter per deciding filter and the number of records
StatKeys == Range(FilterOrder) \cup {"n"}

ZeroStatistics == [k \in StatKeys |-> 0]

\* Combining by the pointwise maximum
AddStatisticsByMaximum(s1, s2) ==
    [k \in StatKeys |-> IF s1[k] >= s2[k] THEN s1[k] ELSE s2[k]]

\* Statistics.__iadd__: pointwise addition
AddStatistics(s1, s2) == [k \in StatKeys |-> s1[k] + s2[k]]

\* The statistics of one routed record
RecordStatistics(d) == [k \in StatKeys |-> IF k = "n" \/ k = d.by THEN 1 ELSE 0]

\* Appending a routed record to the open files it goes to
WriteRecord(files, d) ==
    [f \in DOMAIN files |-> IF f \in d.files THEN Append(files[f], d.id) ELSE files[f]]

\* What a runner that processes `recs` one after the other writes and counts,
\* starting from the files' contents w and the statistics st
RECURSIVE ProcessAll(_, _, _, _, _)
ProcessAll(recs, p, o, w, st) ==
    IF recs = << >> THEN [written |-> w, stats |-> st]
    ELSE LET d == Route(recs[1], p, o)
         IN  ProcessAll(Tail(recs), p, o, WriteRecord(w, d),
                        AddStatistics(st, RecordStatistics(d)))

-----------------------------------------------------------------------------
(* Bounds of the model                                                     *)

\* Largest number of CPUs available_cpu_count() reports
MaxCpuCount == 2

\* Capacity of the chunk queue and of the result queue
QueueCap == 1

\* Largest number of records the reader puts into one chunk
MaxChunk == 2

-----------------------------------------------------------------------------
(* main()                                                                  *)

\* One compression thread per core, without the cap
estimate_compression_threads_uncapped(n) == IF n > 0 THEN n ELSE 0

\* estimate_compression_threads
estimate_compression_threads(n) ==
    LET m == IF n < 4 THEN n ELSE 4
    IN  IF m > 0 THEN m ELSE 0

\* setup_runner: the kind of runner it constructs
RunnerKind(n) == IF n > 1 THEN "parallel" ELSE "serial"

\* Exceptions the construction of a runner raises
RunnerSetupErrors == {"UnknownFileFormat", "FileFormatError", "OSError"}

\* setup_runner without its except clause
setup_runner_error_unconverted(fault) == fault

\* setup_runner: the exception it raises for an exception of the runner's
\* construction
setup_runner_error(fault) ==
    IF fault \in RunnerSetupErrors THEN "CommandLineError" ELSE fault

\* Exceptions runner.run() raises
RunErrors ==
    {"KeyboardInterrupt", "BrokenPipeError", "FileFormatError",
     "UnknownFileFormat", "EOFError", "OSError"}

\* Exit status of the interpreter for an exception no handler of main catches
UncaughtStatus == 1

\* The exit status without the handler of KeyboardInterrupt
RunErrorStatusNoInterruptHandler(e) ==
    IF e = "BrokenPipeError" THEN 1
    ELSE IF e \in {"FileFormatError", "UnknownFileFormat", "EOFError"} THEN 1
    ELSE UncaughtStatus

\* The exit status the handlers around runner.run() give an exception
RunErrorStatus(e) ==
    IF e = "KeyboardInterrupt" THEN 130
    ELSE IF e = "BrokenPipeError" THEN 1
    ELSE IF e \in {"FileFormatError", "UnknownFileFormat", "EOFError"} THEN 1
    ELSE UncaughtStatus

\* The exit status of an exception raised in the try block of the set-up:
\* `except CommandLineError` calls parser.error, which exits with status 2
SetupErrorStatus(e) == IF e = "CommandLineError" THEN 2 ELSE UncaughtStatus

\* The process ends with `status` because of exception e
Exit(status, e) ==
    /\ pc' = "exited"
    /\ exitStatus' = Some(status)
    /\ raised' = e
    /\ exitedAt' = pc

\* parse_known_args and the checks before the try block
ParseArgs ==
    /\ pc = "parse"
    /\ \/ \* -h / --version: argparse prints and exits
          /\ Exit(0, "SystemExit")
          /\ UNCHANGED <<cores, threads, paired>>
       \/ \* an option value argparse rejects: parser.error
          /\ Exit(2, "ArgumentError")
          /\ UNCHANGED <<cores, threads, paired>>
       \/ /\ \/ args.quiet /\ ~IsNone(args.report)
             \/ NonEmpty(args.leftover_args)
             \/ args.cores < 0
          /\ Exit(2, "ArgumentError")
          /\ UNCHANGED <<cores, threads, paired>>
       \/ /\ ~(args.quiet /\ ~IsNone(args.report))
          /\ ~NonEmpty(args.leftover_args)
          /\ args.cores >= 0
          /\ \E cpus \in 1..MaxCpuCount :
                 LET n == IF args.cores = 0 THEN cpus ELSE args.cores
                 IN  /\ cores' = n
                     /\ threads' = estimate_compression_threads(n)
          /\ paired' = determine_paired(args)
          /\ pc' = "setup_input_files"
          /\ UNCHANGED <<raised, exitStatus, exitedAt>>
    /\ UNCHANGED <<args, inputNames, adapters, adapters2, pipeline, outfiles,
                   opened, runner, started, input, runVars>>

\* setup_input_files(args.inputs, paired, is_interleaved_input)
SetupInputFiles ==
    /\ pc = "setup_input_files"
    /\ LET is_interleaved_input == args.interleaved /\ Len(args.inputs) = 1
           r == setup_input_files(args.inputs, paired, is_interleaved_input)
       IN  IF r.err # "none"
           THEN Exit(SetupErrorStatus(r.err), r.err) /\ UNCHANGED inputNames
           ELSE /\ inputNames' = r.value
                /\ pc' = "check_arguments"
                /\ UNCHANGED <<raised, exitStatus, exitedAt>>
    /\ UNCHANGED <<args, paired, cores, threads, adapters, adapters2, pipeline,
                   outfiles, opened, runner, started, input, runVars>>

\* check_arguments(args, paired)
CheckArguments ==
    /\ pc = "check_arguments"
    /\ LET e == check_arguments(args, paired)
       IN  IF e # "none" THEN Exit(SetupErrorStatus(e), e)
           ELSE pc' = "adapters_from_args" /\ UNCHANGED <<raised, exitStatus, exitedAt>>
    /\ UNCHANGED <<setupVars, started, input, runVars>>

\* adapters, adapters2 = adapters_from_args(args)
AdaptersFromArgs ==
    /\ pc = "adapters_from_args"
    /\ \E fault \in {"none", "FileNotFoundError", "ValueError", "InvalidCharacter"} :
           LET r == adapters_from_args(args, fault)
           IN  IF r.err # "none"
               THEN Exit(SetupErrorStatus(r.err), r.err)
                    /\ UNCHANGED <<adapters, adapters2>>
               ELSE /\ adapters' = r.adapters
                    /\ adapters2' = r.adapters2
                    /\ pc' = "pipeline_from_parsed_args"
                    /\ UNCHANGED <<raised, exitStatus, exitedAt>>
    /\ UNCHANGED <<args, paired, cores, threads, inputNames, pipeline, outfiles,
                   opened, runner, started, input, runVars>>

\* pipeline = pipeline_from_parsed_args(args, paired, file_opener, adapters,
\* adapters2)
PipelineFromParsedArgs ==
    /\ pc = "pipeline_from_parsed_args"
    /\ args' = [args EXCEPT !.action = IF @ = Some("none") THEN None ELSE @]
    /\ \E fault \in {"none", "ValueError"} :
           \E r \in {pipeline_from_parsed_args(args, paired, adapters, adapters2, fault)} :
               IF r.err # "none"
               THEN Exit(SetupErrorStatus(r.err), r.err) /\ UNCHANGED pipeline
               ELSE /\ pipeline' = r.value
                    /\ pc' = "open_output_files"
                    /\ UNCHANGED <<raised, exitStatus, exitedAt>>
    /\ UNCHANGED <<paired, cores, threads, inputNames, adapters, adapters2,
                   outfiles, opened, runner, started, input, runVars>>

\* outfiles = open_output_files(args, default_outfile, file_opener,
\* adapter_names, adapter_names2)
OpenOutputFiles ==
    /\ pc = "open_output_files"
    /\ \E fault \in {"none", "OSError"} :
           LET r == open_output_files(args, AdapterNames(adapters),
                                      AdapterNames(adapters2), fault)
           IN  /\ opened' = r.opened
               /\ written' = [f \in r.opened \cup {DefaultOutfile} |-> << >>]
               /\ IF r.err # "none"
                  THEN Exit(SetupErrorStatus(r.err), r.err) /\ UNCHANGED outfiles
                  ELSE /\ outfiles' = r.value
                       /\ pc' = "setup_runner"
                       /\ UNCHANGED <<raised, exitStatus, exitedAt>>
    /\ UNCHANGED <<args, paired, cores, threads, inputNames, adapters, adapters2,
                   pipeline, runner, started, input, stats, readerPos, chunksMade,
                   readerDone, chunkQueue, workers, resultQueue, writerBuf,
                   nextWrite>>

\* runner = setup_runner(pipeline, inpaths, outfiles, progress, cores,
\* args.buffer_size, file_opener)
SetupRunner ==
    /\ pc = "setup_runner"
    /\ \E fault \in {"none"} \cup RunnerSetupErrors :
           IF fault # "none"
           THEN /\ Exit(SetupErrorStatus(setup_runner_error(fault)),
                        setup_runner_error(fault))
                /\ UNCHANGED <<runner, workers>>
           ELSE /\ runner' = RunnerKind(cores)
                /\ workers' = IF RunnerKind(cores) = "parallel"
                              THEN [w \in 1..cores |->
                                       [state |-> "idle", result |-> None,
                                        stats |-> ZeroStatistics]]
                              ELSE << >>
                /\ pc' = "run"
                /\ UNCHANGED <<raised, exitStatus, exitedAt>>
    /\ UNCHANGED <<args, paired, cores, threads, inputNames, adapters, adapters2,
                   pipeline, outfiles, opened, started, input, written, stats,
                   readerPos, chunksMade, readerDone, chunkQueue, resultQueue,
                   writerBuf, nextWrite>>

\* with runner as r: stats = r.run()   -- the call is entered
RunnerStart ==
    /\ pc = "run"
    /\ pc' = "running"
    /\ started' = TRUE
    /\ UNCHANGED <<raised, exitStatus, exitedAt, input, setupVars, runVars>>

-----------------------------------------------------------------------------
(* The serial runner                                                       *)

\* One record is read, processed by the pipeline and written
SerialStep ==
    /\ pc = "running"
    /\ runner = "serial"
    /\ readerPos < Len(input)
    /\ LET d == Route(input[readerPos + 1], Val(pipeline), Val(outfiles))
       IN  /\ written' = WriteRecord(written, d)
           /\ stats' = AddStatistics(stats, RecordStatistics(d))
    /\ readerPos' = readerPos + 1
    /\ UNCHANGED <<pc, raised, exitStatus, exitedAt, started, input, setupVars, chunksMade,
                   readerDone, chunkQueue, workers, resultQueue, writerBuf,
                   nextWrite>>

\* run() of the serial runner returns at the end of the input
SerialReturn ==
    /\ pc = "running"
    /\ runner = "serial"
    /\ readerPos = Len(input)
    /\ pc' = "report"
    /\ UNCHANGED <<raised, exitStatus, exitedAt, started, input, setupVars, runVars>>

-----------------------------------------------------------------------------
(* The parallel runner: reader, worker pool, writer                        *)

\* What a worker makes of a chunk: the routed records in chunk order and the
\* statistics of the chunk
ProcessChunk(chunk, p, o) ==
    [id |-> chunk.id,
     routed |-> [i \in 1..Len(chunk.recs) |-> Route(chunk.recs[i], p, o)]]

RECURSIVE ChunkStatistics(_)
ChunkStatistics(routed) ==
    IF routed = << >> THEN ZeroStatistics
    ELSE AddStatistics(RecordStatistics(routed[1]), ChunkStatistics(Tail(routed)))

\* The writer appends the records of one result to the files, in chunk order
RECURSIVE WriteRouted(_, _)
WriteRouted(files, routed) ==
    IF routed = << >> THEN files
    ELSE WriteRouted(WriteRecord(files, routed[1]), Tail(routed))

\* The result the writer writes next when it takes whichever it has
AnyResult(buf, expected) == buf

\* The result the writer writes next: the one with the expected chunk_id
NextResult(buf, expected) == {r \in buf : r.id = expected}

\* The reader cuts the next chunk off the input and queues it; it blocks
\* while the chunk queue is full
ReaderRead ==
    /\ pc = "running"
    /\ runner = "parallel"
    /\ readerPos < Len(input)
    /\ Len(chunkQueue) < QueueCap
    /\ \E size \in 1..MaxChunk :
           /\ readerPos + size <= Len(input)
           /\ chunkQueue' = Append(chunkQueue,
                                   [id |-> chunksMade,
                                    recs |-> SubSeq(input, readerPos + 1,
                                                    readerPos + size)])
           /\ readerPos' = readerPos + size
    /\ chunksMade' = chunksMade + 1
    /\ UNCHANGED <<pc, raised, exitStatus, exitedAt, started, input, setupVars, written,
                   stats, readerDone, workers, resultQueue, writerBuf, nextWrite>>

\* The reader reaches the end of the input and tells the workers
ReaderEnd ==
    /\ pc = "running"
    /\ runner = "parallel"
    /\ readerPos = Len(input)
    /\ ~readerDone
    /\ readerDone' = TRUE
    /\ UNCHANGED <<pc, raised, exitStatus, exitedAt, started, input, setupVars, written,
                   stats, readerPos, chunksMade, chunkQueue, workers, resultQueue,
                   writerBuf, nextWrite>>

\* A worker takes a chunk and runs its clone of the pipeline on it
WorkerProcess(w) ==
    /\ pc = "running"
    /\ runner = "parallel"
    /\ workers[w].state = "idle"
    /\ chunkQueue # << >>
    /\ LET res == ProcessChunk(Head(chunkQueue), Val(pipeline), Val(outfiles))
       IN  workers' = [workers EXCEPT
                          ![w] = [state |-> "holding", result |-> Some(res),
                                  stats |-> AddStatistics(@.stats,
                                                          ChunkStatistics(res.routed))]]
    /\ chunkQueue' = Tail(chunkQueue)
    /\ UNCHANGED <<pc, raised, exitStatus, exitedAt, started, input, setupVars, written,
                   stats, readerPos, chunksMade, readerDone, resultQueue, writerBuf,
                   nextWrite>>

\* A worker forwards its result; it blocks while the result queue is full
WorkerSend(w) ==
    /\ pc \in {"running", "interrupted"}
    /\ runner = "parallel"
    /\ workers[w].state = "holding"
    /\ Len(resultQueue) < QueueCap
    /\ resultQueue' = Append(resultQueue, Val(workers[w].result))
    /\ workers' = [workers EXCEPT ![w].state = "idle", ![w].result = None]
    /\ UNCHANGED <<pc, raised, exitStatus, exitedAt, started, input, setupVars, written,
                   stats, readerPos, chunksMade, readerDone, chunkQueue, writerBuf,
                   nextWrite>>

\* A worker stops when the reader is done and no chunk is left
WorkerExit(w) ==
    /\ runner = "parallel"
    /\ workers[w].state = "idle"
    /\ \/ pc = "running" /\ chunkQueue = << >> /\ readerDone
       \/ pc = "interrupted"
    /\ workers' = [workers EXCEPT ![w].state = "exited"]
    /\ UNCHANGED <<pc, raised, exitStatus, exitedAt, started, input, setupVars, written,
                   stats, readerPos, chunksMade, readerDone, chunkQueue,
                   resultQueue, writerBuf, nextWrite>>

\* A writer that takes a result off the queue only when it is the one it
\* writes next
WriterReceiveInOrderOnly ==
    /\ pc = "running"
    /\ runner = "parallel"
    /\ resultQueue # << >>
    /\ Head(resultQueue).id = nextWrite
    /\ writerBuf' = writerBuf \cup {Head(resultQueue)}
    /\ resultQueue' = Tail(resultQueue)
    /\ UNCHANGED <<pc, raised, exitStatus, exitedAt, started, input, setupVars, written,
                   stats, readerPos, chunksMade, readerDone, chunkQueue, workers,
                   nextWrite>>

\* The writer receives a result, whatever its chunk_id
WriterReceive ==
    /\ pc = "running"
    /\ runner = "parallel"
    /\ resultQueue # << >>
    /\ writerBuf' = writerBuf \cup {Head(resultQueue)}
    /\ resultQueue' = Tail(resultQueue)
    /\ UNCHANGED <<pc, raised, exitStatus, exitedAt, started, input, setupVars, written,
                   stats, readerPos, chunksMade, readerDone, chunkQueue, workers,
                   nextWrite>>

\* A writer that writes whichever result it has buffered
WriterCommitAnyBuffered ==
    /\ pc \in {"running", "interrupted"}
    /\ runner = "parallel"
    /\ \E r \in writerBuf :
           /\ written' = WriteRouted(written, r.routed)
           /\ writerBuf' = writerBuf \ {r}
    /\ nextWrite' = nextWrite + 1
    /\ UNCHANGED <<pc, raised, exitStatus, exitedAt, started, input, setupVars, stats,
                   readerPos, chunksMade, readerDone, chunkQueue, workers,
                   resultQueue>>

\* The writer writes the result with the next expected chunk_id
WriterCommit ==
    /\ pc \in {"running", "interrupted"}
    /\ runner = "parallel"
    /\ \E r \in NextResult(writerBuf, nextWrite) :
           /\ written' = WriteRouted(written, r.routed)
           /\ writerBuf' = writerBuf \ {r}
    /\ nextWrite' = nextWrite + 1
    /\ UNCHANGED <<pc, raised, exitStatus, exitedAt, started, input, setupVars, stats,
                   readerPos, chunksMade, readerDone, chunkQueue, workers,
                   resultQueue>>

\* The statistics of the workers, summed
RECURSIVE SumWorkerStatistics(_, _)
SumWorkerStatistics(ws, k) ==
    IF k = 0 THEN ZeroStatistics
    ELSE AddStatistics(SumWorkerStatistics(ws, k - 1), ws[k].stats)

\* run() of the parallel runner returns: every worker stopped and the writer
\* wrote everything it received
ParallelReturn ==
    /\ pc = "running"
    /\ runner = "parallel"
    /\ \A w \in DOMAIN workers : workers[w].state = "exited"
    /\ resultQueue = << >>
    /\ writerBuf = {}
    /\ stats' = SumWorkerStatistics(workers, Len(workers))
    /\ pc' = "report"
    /\ UNCHANGED <<raised, exitStatus, exitedAt, started, input, setupVars, written,
                   readerPos, chunksMade, readerDone, chunkQueue, workers,
                   resultQueue, writerBuf, nextWrite>>

-----------------------------------------------------------------------------
(* The end of main()                                                       *)

\* A keyboard interrupt is signalled to the parallel runner, which shuts
\* down: the reader produces no new chunk, a worker forwards the result it
\* holds and stops, the writer writes what it has received and can write in
\* order
InterruptSignalled ==
    /\ pc = "running"
    /\ runner = "parallel"
    /\ pc' = "interrupted"
    /\ UNCHANGED <<raised, exitStatus, exitedAt, started, input, setupVars, runVars>>

\* The KeyboardInterrupt leaves runner.run(), however far the shutdown got:
\* `except KeyboardInterrupt` of main
InterruptedExit ==
    /\ pc = "interrupted"
    /\ pc' = "exited"
    /\ exitStatus' = Some(RunErrorStatus("KeyboardInterrupt"))
    /\ raised' = "KeyboardInterrupt"
    /\ exitedAt' = "running"
    /\ UNCHANGED <<started, input, setupVars, runVars>>

\* runner.run() raises: the handlers of main decide the exit status
RunnerRaises ==
    /\ pc = "running"
    /\ \E e \in RunErrors : Exit(RunErrorStatus(e), e)
    /\ UNCHANGED <<started, input, setupVars, runVars>>

\* The report is logged and main returns the statistics: exit status 0
Report ==
    /\ pc = "report"
    /\ Exit(0, "none")
    /\ UNCHANGED <<started, input, setupVars, runVars>>

Next ==
    \/ ParseArgs
    \/ SetupInputFiles
    \/ CheckArguments
    \/ AdaptersFromArgs
    \/ PipelineFromParsedArgs
    \/ OpenOutputFiles
    \/ SetupRunner
    \/ RunnerStart
    \/ SerialStep
    \/ SerialReturn
    \/ ReaderRead
    \/ ReaderEnd
    \/ \E w \in DOMAIN workers : WorkerProcess(w)
    \/ \E w \in DOMAIN workers : WorkerSend(w)
    \/ \E w \in DOMAIN workers : WorkerExit(w)
    \/ WriterReceive
    \/ WriterCommit
    \/ ParallelReturn
    \/ InterruptSignalled
    \/ InterruptedExit
    \/ RunnerRaises
    \/ Report

\* The state of main() before its first statement, for a parsed command line
\* `a` and input records `recs`
Start(a, recs) ==
    /\ pc = "parse"
    /\ args = a
    /\ input = recs
    /\ paired = FALSE
    /\ cores = 0
    /\ threads = 0
    /\ inputNames = << >>
    /\ adapters = << >>
    /\ adapters2 = << >>
    /\ pipeline = None
    /\ outfiles = None
    /\ opened = {}
    /\ runner = "none"
    /\ raised = "none"
    /\ exitStatus = None
    /\ exitedAt = "none"
    /\ started = FALSE
    /\ written = << >>
    /\ stats = ZeroStatistics
    /\ readerPos = 0
    /\ chunksMade = 0
    /\ readerDone = FALSE
    /\ chunkQueue = << >>
    /\ workers = << >>
    /\ resultQueue = << >>
    /\ writerBuf = {}
    /\ nextWrite = 0

-----------------------------------------------------------------------------
(* Command lines and inputs the specifications start from                  *)

\* cutadapt -o out.fq in1.fq
BaseSingle ==
    [DefaultArgs EXCEPT !.inputs = <<"in1.fq">>, !.output = Some(<<"out", ".fq">>)]

\* cutadapt -o out.fq -p out2.fq in1.fq in2.fq
BasePaired ==
    [DefaultArgs EXCEPT !.inputs = <<"in1.fq", "in2.fq">>,
                        !.output = Some(<<"out", ".fq">>),
                        !.paired_output = Some(<<"out2", ".fq">>)]

\* Adapter specifications as -a / -A give them
AdapterA == [where |-> "back", name |-> "A"]
AdapterB == [where |-> "front", name |-> "B"]
AdapterX == [where |-> "back", name |-> "X"]
AdapterY == [where |-> "anywhere", name |-> "Y"]

\* A read that no filter of the model's command lines catches
PlainRead == [len |-> 2, n |-> 0, ee |-> 0, casava |-> FALSE, match |-> None]

\* Whether the input holds pairs: two input files, or one interleaved file
InputIsPaired(a) == Len(a.inputs) = 2 \/ (a.interleaved /\ Len(a.inputs) = 1)

\* The record with number `id` made of two given reads (the second one is
\* dropped for single-end input)
Record(a, id, read1, read2) ==
    [id |-> id, r1 |-> Some(read1),
     r2 |-> IF InputIsPaired(a) THEN Some(read2) ELSE None]

\* A one-record input
OneRecord(a) == <<Record(a, 1, PlainRead, PlainRead)>>

\* One option on the command line: the field of the namespace it sets and
\* the value it sets it to
Option(field, value) == [field |-> field, value |-> value]

\* The namespace for the options numbered by S, out of the list `options`,
\* given on top of the command line `base`
RECURSIVE WithOptions(_, _, _)
WithOptions(base, options, S) ==
    IF S = {} THEN base
    ELSE LET k == CHOOSE i \in S : \A j \in S : i <= j
         IN  WithOptions([base EXCEPT ![options[k].field] = options[k].value],
                         options, S \ {k})

\* Largest number of options given on top of a base command line
MaxOptions == 3

\* The subsets of 1..n with at most k elements
RECURSIVE SmallSubsets(_, _)
SmallSubsets(n, k) ==
    IF n = 0 \/ k = 0 THEN {{}}
    ELSE SmallSubsets(n - 1, k) \cup {T \cup {n} : T \in SmallSubsets(n - 1, k - 1)}

\* The command lines with at most MaxOptions of the listed options
CommandLines(bases, options) ==
    {WithOptions(base, options, S) :
        base \in bases, S \in SmallSubsets(Len(options), MaxOptions)}

\* The reads a record can hold when the adapters `ads` are searched for:
\* lengths `lens`, numbers of N bases `ns`, with and without a match
Reads(ads, lens, ns) ==
    {[len |-> l, n |-> k, ee |-> 0, casava |-> FALSE, match |-> m] :
        l \in lens, k \in ns,
        m \in {None} \cup {Some(ads[i].name) : i \in 1..Len(ads)}}

\* The options that add modifiers to the pipeline
PipelineOptions ==
    <<Option("cut", <<2, -1>>),
      Option("cut2", <<3>>),
      Option("nextseq_trim", Some(20)),
      Option("quality_cutoff", Some(<<"5">>)),
      Option("quality_cutoff2", Some(<<"0">>)),
      Option("adapters", <<AdapterA>>),
      Option("adapters2", <<AdapterX>>),
      Option("pair_adapters", TRUE),
      Option("reverse_complement", TRUE),
      Option("length", Some(10)),
      Option("trim_n", TRUE),
      Option("length_tag", Some(<<"length=">>)),
      Option("strip_suffix", <<"/1", "/2">>),
      Option("prefix", <<"p_", "{name}">>),
      Option("zero_cap", TRUE),
      Option("rename", Some(<<"{id}", " ", "{adapter_name}">>)),
      Option("cores", 2)>>

InitPipeline ==
    \E a \in CommandLines({BaseSingle, BasePaired}, PipelineOptions) :
        Start(a, OneRecord(a))

\* Command lines that differ in the options that build the modifier list
SpecPipeline == InitPipeline /\ [][Next]_vars

\* Paired-end command lines with each value of --pair-filter
PairFilterBases ==
    {BaseSingle} \cup
    {[BasePaired EXCEPT !.pair_filter = m] :
        m \in {None, Some("any"), Some("both"), Some("first")}}

\* The options that filter by length and by adapter match
PairFilterOptions ==
    <<Option("adapters", <<AdapterA>>),
      Option("adapters2", <<AdapterX>>),
      Option("discard_untrimmed", TRUE),
      Option("discard_trimmed", TRUE),
      Option("untrimmed_output", Some(<<"untr", ".fq">>)),
      Option("untrimmed_paired_output", Some(<<"untr2", ".fq">>)),
      Option("minimum_length", Some(<<"2">>)),
      Option("cores", 2)>>

InitPairFilter ==
    \E a \in CommandLines(PairFilterBases, PairFilterOptions) :
        \E r1 \in Reads(a.adapters, {1, 3}, {0}), r2 \in Reads(a.adapters2, {1, 3}, {0}) :
            Start(a, <<Record(a, 1, r1, r2)>>)

\* Command lines that differ in the pair filter mode and in the filters
SpecPairFilter == InitPairFilter /\ [][Next]_vars

\* Largest number of -u (or -U) options on a command line
MaxCuts == 3

\* The values of LENGTH given to -u / -U
CutValues == {-1, 0, 2}

\* The lists of at most n cut lengths
RECURSIVE CutLists(_)
CutLists(n) ==
    IF n = 0 THEN {<< >>}
    ELSE CutLists(n - 1)
         \cup {Append(l, c) : l \in {x \in CutLists(n - 1) : Len(x) = n - 1},
                              c \in CutValues}

InitCut ==
    \E base \in {BaseSingle, BasePaired}, n \in {1, 2} :
        \E c1 \in CutLists(MaxCuts), c2 \in CutLists(MaxCuts) :
            LET a == [base EXCEPT !.cut = c1, !.cut2 = c2, !.cores = n]
            IN  Start(a, OneRecord(a))

\* Command lines that differ in the -u and -U options
SpecCut == InitCut /\ [][Next]_vars

\* cutadapt -o out_{name}.fq in1.fq
DemultiplexSingle ==
    [DefaultArgs EXCEPT !.inputs = <<"in1.fq">>,
                        !.output = Some(<<"out_", "{name}", ".fq">>)]

\* cutadapt -o out_{name}.fq -p p_{name}.fq in1.fq in2.fq
DemultiplexPaired ==
    [DefaultArgs EXCEPT !.inputs = <<"in1.fq", "in2.fq">>,
                        !.output = Some(<<"out_", "{name}", ".fq">>),
                        !.paired_output = Some(<<"p_", "{name}", ".fq">>)]

\* cutadapt -o out_{name1}_{name2}.fq -p p_{name1}_{name2}.fq in1.fq in2.fq
Combinatorial ==
    [DefaultArgs EXCEPT !.inputs = <<"in1.fq", "in2.fq">>,
                        !.output = Some(<<"out_", "{name1}", "_", "{name2}", ".fq">>),
                        !.paired_output = Some(<<"p_", "{name1}", "_", "{name2}", ".fq">>)]

\* The options that decide which output files are opened
OutputOptions ==
    <<Option("adapters", <<AdapterA, AdapterB>>),
      Option("adapters2", <<AdapterX, AdapterY>>),
      Option("discard_untrimmed", TRUE),
      Option("untrimmed_output", Some(<<"untr", ".fq">>)),
      Option("untrimmed_paired_output", Some(<<"untr2", ".fq">>)),
      Option("discard_trimmed", TRUE),
      Option("info_file", Some(<<"info", ".tsv">>)),
      Option("cores", 2)>>

InitOutput ==
    \E a \in CommandLines({DemultiplexSingle, DemultiplexPaired, Combinatorial},
                          OutputOptions) :
        \E r1 \in Reads(a.adapters, {2}, {0}), r2 \in Reads(a.adapters2, {2}, {0}) :
            Start(a, <<Record(a, 1, r1, r2)>>)

\* Command lines of the two demultiplexing modes
SpecOutput == InitOutput /\ [][Next]_vars

\* The options that install filters
FilterOptions ==
    <<Option("minimum_length", Some(<<"3">>)),
      Option("maximum_length", Some(<<"1">>)),
      Option("max_n", Some(0)),
      Option("max_expected_errors", Some(0)),
      Option("discard_casava", TRUE),
      Option("discard_trimmed", TRUE),
      Option("discard_untrimmed", TRUE),
      Option("adapters", <<AdapterA>>),
      Option("too_short_output", Some(<<"short", ".fq">>)),
      Option("untrimmed_output", Some(<<"untr", ".fq">>)),
      Option("cores", 2)>>

\* Reads that differ in everything a filter looks at
FilterReads(ads) ==
    {[len |-> l, n |-> k, ee |-> e, casava |-> c, match |-> m] :
        l \in {2, 3}, k \in {0, 1}, e \in {0, 1}, c \in BOOLEAN,
        m \in {None} \cup {Some(ads[i].name) : i \in 1..Len(ads)}}

\* A read that every filter catches except the one for trimmed reads
BadRead == [len |-> 2, n |-> 1, ee |-> 1, casava |-> TRUE, match |-> None]

InitFilter ==
    \E a \in CommandLines({BaseSingle, BasePaired}, FilterOptions) :
        \E r1 \in FilterReads(a.adapters), r2 \in {PlainRead, BadRead} :
            Start(a, <<Record(a, 1, r1, r2)>>)

\* Command lines that differ in the filters, and reads that fail several
SpecFilter == InitFilter /\ [][Next]_vars

\* Options and option values that main or a function it calls rejects, next
\* to some it accepts
MainOptions ==
    <<Option("quiet", TRUE),
      Option("report", Some("minimal")),
      Option("leftover_args", <<"--bogus">>),
      Option("cores", -1),
      Option("cores", 0),
      Option("cores", 2),
      Option("inputs", << >>),
      Option("inputs", <<"in1.fq", "in2.fq", "in3.fq">>),
      Option("rename", Some(<<"{id}", "{nosuchvariable}">>)),
      Option("adapters", <<AdapterA>>),
      Option("pair_adapters", TRUE),
      Option("overlap", 0),
      Option("gc_content", 101),
      Option("minimum_length", Some(<<"x">>)),
      Option("quality_cutoff", Some(<<"5", ",", "x">>)),
      Option("discard_trimmed", TRUE),
      Option("discard_untrimmed", TRUE),
      Option("info_file", Some(<<"info", ".tsv">>))>>

InitMain ==
    \E a \in CommandLines({BaseSingle, BasePaired}, MainOptions) :
        Start(a, OneRecord(a))

\* Command lines with and without errors
SpecMain == InitMain /\ [][Next]_vars

\* Largest number of records in the input
MaxRecords == 2

\* The inputs of at most n records made of the given reads for R1
RECURSIVE Inputs(_, _, _)
Inputs(a, reads, n) ==
    IF n = 0 THEN {<< >>}
    ELSE Inputs(a, reads, n - 1)
         \cup {Append(recs, Record(a, n, r, PlainRead)) :
                  recs \in {x \in Inputs(a, reads, n - 1) : Len(x) = n - 1},
                  r \in reads}

\* cutadapt -a A -o out_{name}.fq in1.fq   and
\* cutadapt -a A --untrimmed-output untr.fq --untrimmed-paired-output
\*     untr2.fq -o out.fq -p out2.fq in1.fq in2.fq
RunnerBases ==
    {[DemultiplexSingle EXCEPT !.adapters = <<AdapterA>>],
     [BasePaired EXCEPT !.adapters = <<AdapterA>>,
                        !.untrimmed_output = Some(<<"untr", ".fq">>),
                        !.untrimmed_paired_output = Some(<<"untr2", ".fq">>)]}

\* --cores=0: the number of cores is the number of CPUs available
InitRunner ==
    \E base \in RunnerBases :
        LET a == [base EXCEPT !.cores = 0]
        IN  \E recs \in Inputs(a, Reads(a.adapters, {2}, {0}), MaxRecords) :
                Start(a, recs)

\* Inputs of several records, processed on one or on several cores
SpecRunner == InitRunner /\ [][Next]_vars

-----------------------------------------------------------------------------
(* C2: the order of the modifiers                                          *)

\* The position of a modifier class in the documented order
ModifierRank(cls) ==
    CASE cls = "UnconditionalCutter" -> 1
      [] cls = "NextseqQualityTrimmer" -> 2
      [] cls = "QualityTrimmer" -> 3
      [] cls \in {"AdapterCutter", "PairedAdapterCutter", "ReverseComplementer"} -> 4
      [] cls = "Shortener" -> 5
      [] cls = "NEndTrimmer" -> 6
      [] cls = "LengthTagModifier" -> 7
      [] cls = "SuffixRemover" -> 8
      [] cls = "PrefixSuffixAdder" -> 9
      [] cls = "ZeroCapper" -> 10
      [] cls \in {"Renamer", "PairedEndRenamer"} -> 11
      [] OTHER -> 0

\* The steps of s that hold a modifier of class cls, in the order of s
RECURSIVE SelectSteps(_, _)
SelectSteps(s, cls) ==
    IF s = << >> THEN << >>
    ELSE IF StepClass(s[1]) = cls THEN <<s[1]>> \o SelectSteps(Tail(s), cls)
    ELSE SelectSteps(Tail(s), cls)

\* C2: in every pipeline that pipeline_from_parsed_args returns, every
\* modifier is of a documented kind, a modifier of a later kind never
\* precedes one of an earlier kind (cutters, NextSeq trimmer, quality trimmer,
\* adapter cutter, Shortener, NEndTrimmer, LengthTagModifier, SuffixRemovers,
\* PrefixSuffixAdder, ZeroCapper, Renamer), the suffix removers stand in the
\* order the suffixes were given, and each enabled modifier that applies to
\* both ends is present.
C2_ModifierOrder ==
    ~IsNone(pipeline) =>
        LET mods == Val(pipeline).modifiers
            suffixes == SelectSteps(mods, "SuffixRemover")
            Has(cls) == \E i \in 1..Len(mods) : StepClass(mods[i]) = cls
        IN  /\ \A i \in 1..Len(mods) : ModifierRank(StepClass(mods[i])) > 0
            /\ \A i, j \in 1..Len(mods) :
                   i < j => ModifierRank(StepClass(mods[i]))
                            <= ModifierRank(StepClass(mods[j]))
            /\ Len(suffixes) = Len(args.strip_suffix)
            /\ \A i \in 1..Len(suffixes) :
                   Val(suffixes[i].r1).param = <<args.strip_suffix[i]>>
            /\ Has("Shortener") <=> ~IsNone(args.length)
            /\ Has("NEndTrimmer") <=> args.trim_n
            /\ Has("ZeroCapper") <=> args.zero_cap
            /\ Has("NextseqQualityTrimmer") <=> ~IsNone(args.nextseq_trim)

\* A pipeline with modifiers of at least three kinds, a cutter first and
\* the N-end trimmer after the shortener
C2_Witness ==
    /\ ~IsNone(pipeline)
    /\ LET mods == Val(pipeline).modifiers
       IN  /\ Len(mods) >= 3
           /\ StepClass(mods[1]) \in {"UnconditionalCutter", "QualityTrimmer"}
           /\ \E i \in 1..Len(mods) - 1 :
                  /\ StepClass(mods[i]) = "Shortener"
                  /\ StepClass(mods[i + 1]) = "NEndTrimmer"

-----------------------------------------------------------------------------
(* C3: the pair filter mode                                                *)

\* The filters that look at the reads of a record
ReadFilters ==
    {"too_short", "too_long", "max_n", "max_ee", "discard_casava",
     "discard_trimmed", "discard_untrimmed"}

\* Whether a pair is kept in a given mode, from whether each read passes
KeptInMode(mode, pass1, pass2) ==
    CASE mode = "any" -> pass1 /\ pass2
      [] mode = "both" -> pass1 \/ pass2
      [] mode = "first" -> pass1

\* The mode the command line asks for
RequestedPairFilterMode ==
    IF IsNone(args.pair_filter) THEN "any" ELSE Val(args.pair_filter)

\* The ids of the records written to the main output (-o)
MainOutputIds == Range(written[Val(Val(outfiles).out)])

\* C3: a paired-end pipeline is given the mode of --pair-filter, 'any' when
\* the option is absent, and when the runner has returned a pair is in the
\* main output iff every enabled filter keeps it, where a filter keeps a
\* pair in mode any iff both reads pass its predicate, in mode both iff at
\* least one read passes and in mode first iff R1 passes (the untrimmed
\* predicate runs in mode both where the override of C4 is switched on).
C3_PairFilterMode ==
    /\ (~IsNone(pipeline) /\ paired) =>
           Val(pipeline).pair_filter_mode = Some(RequestedPairFilterMode)
    /\ (pc = "report" /\ paired) =>
           LET p == Val(pipeline)
               o == Val(outfiles)
               ModeOf(f) == IF f = "discard_untrimmed" /\ p.override_untrimmed_pair_filter
                            THEN "both" ELSE RequestedPairFilterMode
               Passes(f, read, k) == ~ReadFails(f, read, p, LengthLimit(f, p, k))
           IN  \A i \in 1..Len(input) :
                   (input[i].id \in MainOutputIds)
                   <=> \A f \in ReadFilters :
                          FilterEnabled(f, p, o) =>
                              KeptInMode(ModeOf(f),
                                         Passes(f, Val(input[i].r1), 1),
                                         Passes(f, Val(input[i].r2), 2))

\* With --pair-filter=both and a minimum length, a pair whose R1 is too
\* short and whose R2 is long enough has reached the main output
C3_Witness ==
    /\ pc = "report"
    /\ paired
    /\ args.pair_filter = Some("both")
    /\ ~IsNone(args.minimum_length)
    /\ Val(input[1].r1).len = 1
    /\ Val(input[1].r2).len = 3
    /\ input[1].id \in MainOutputIds

-----------------------------------------------------------------------------
(* C4: the override of the pair filter mode of the untrimmed predicate     *)

\* --discard-untrimmed, --untrimmed-output or --untrimmed-paired-output
UntrimmedOptionGiven ==
    \/ args.discard_untrimmed
    \/ Truthy(args.untrimmed_output)
    \/ Truthy(args.untrimmed_paired_output)

\* C4 as amended: override_untrimmed_pair_filter is on exactly when the
\* pipeline is paired-end, the adapters of R1 or the adapters of R2 are
\* empty (also when both are), and one of the untrimmed options is given.
C4_OverrideAtMostOneSide ==
    ~IsNone(pipeline) =>
        (Val(pipeline).override_untrimmed_pair_filter
         <=> /\ paired
             /\ (adapters = << >> \/ adapters2 = << >>)
             /\ UntrimmedOptionGiven)

\* C4 as stated: the override is on exactly when the pipeline is paired-end,
\* adapters are given for exactly one of R1 and R2, and one of the untrimmed
\* options is given.
C4_OverrideExactlyOneSide ==
    ~IsNone(pipeline) =>
        (Val(pipeline).override_untrimmed_pair_filter
         <=> /\ paired
             /\ ((adapters = << >>) # (adapters2 = << >>))
             /\ UntrimmedOptionGiven)

\* The override is on for adapters given for R1 only
C4_Witness ==
    /\ ~IsNone(pipeline)
    /\ Val(pipeline).override_untrimmed_pair_filter
    /\ adapters # << >>
    /\ adapters2 = << >>

-----------------------------------------------------------------------------
(* C8: unconditional cutters                                               *)

\* The lengths in a list of cut lengths that remove something, in order
RECURSIVE NonZero(_)
NonZero(cuts) ==
    IF cuts = << >> THEN << >>
    ELSE IF cuts[1] = 0 THEN NonZero(Tail(cuts))
    ELSE <<cuts[1]>> \o NonZero(Tail(cuts))

\* The lengths of the cutters that the steps install on read k, in order
RECURSIVE InstalledCuts(_, _)
InstalledCuts(steps, k) ==
    IF steps = << >> THEN << >>
    ELSE LET m == IF k = 1 THEN steps[1].r1 ELSE steps[1].r2
         IN  IF ~IsNone(m) /\ Val(m).cls = "UnconditionalCutter"
             THEN <<Val(m).param[1]>> \o InstalledCuts(Tail(steps), k)
             ELSE InstalledCuts(Tail(steps), k)

\* Two lengths that remove bases from the same end
SameEndTwice(cuts) == Len(cuts) = 2 /\ cuts[1] * cuts[2] > 0

\* The list of -u (k = 1) or of -U (k = 2)
CutOption(k) == IF k = 1 THEN args.cut ELSE args.cut2

\* C8 as amended: for -u and for -U separately, a list of more than two cut
\* lengths, and a list of two lengths that are both positive or both
\* negative, is rejected with a usage error (exit status 2); every other
\* list is accepted, also two lengths of which one is zero; an accepted
\* list installs one cutter for each of its non-zero lengths, so at most one
\* per end of that read, and no cutter on the other read.
C8_CutsNotFromSameEnd ==
    /\ ~IsNone(pipeline) =>
           \A k \in {1, 2} :
               LET cuts == CutOption(k)
                   installed == InstalledCuts(Val(pipeline).modifiers, k)
               IN  /\ Len(cuts) <= 2
                   /\ ~SameEndTwice(cuts)
                   /\ installed = NonZero(cuts)
                   /\ Cardinality({i \in 1..Len(installed) : installed[i] > 0}) <= 1
                   /\ Cardinality({i \in 1..Len(installed) : installed[i] < 0}) <= 1
    /\ ~IsNone(pipeline) =>
           \A i \in 1..Len(Val(pipeline).modifiers) :
               LET st == Val(pipeline).modifiers[i]
               IN  StepClass(st) = "UnconditionalCutter" => IsNone(st.r1) # IsNone(st.r2)
    /\ (pc = "exited" /\ exitedAt = "pipeline_from_parsed_args") =>
           /\ raised = "CommandLineError"
           /\ exitStatus = Some(2)
           /\ \E k \in {1, 2} : Len(CutOption(k)) > 2 \/ SameEndTwice(CutOption(k))
    /\ (\E k \in {1, 2} : Len(CutOption(k)) > 2 \/ SameEndTwice(CutOption(k))) =>
           /\ IsNone(pipeline)
           /\ pc \notin {"open_output_files", "setup_runner", "run", "running", "report"}

\* C8 as stated: a list of two cut lengths is accepted only if the two
\* lengths have opposite signs.
C8_TwoCutsOppositeSigns ==
    ~IsNone(pipeline) =>
        \A k \in {1, 2} :
            Len(CutOption(k)) = 2 => CutOption(k)[1] * CutOption(k)[2] < 0

\* A paired-end pipeline with a cutter at each end of R1 and one on R2
C8_Witness ==
    /\ ~IsNone(pipeline)
    /\ args.cut = <<2, -1>>
    /\ InstalledCuts(Val(pipeline).modifiers, 1) = <<2, -1>>
    /\ args.cut2 = <<0, 2>>
    /\ InstalledCuts(Val(pipeline).modifiers, 2) = <<2>>

-----------------------------------------------------------------------------
(* C9, C10: the files of the two demultiplexing modes                      *)

\* A template with "{name1}" and "{name2}" filled in for a key: the name,
\* or "unknown" for a missing match
FilledIn(template, key) ==
    LET f1 == IF IsNone(key[1]) THEN "unknown" ELSE Val(key[1])
        f2 == IF IsNone(key[2]) THEN "unknown" ELSE Val(key[2])
    IN  [i \in 1..Len(template) |->
            IF template[i] = "{name1}" THEN f1
            ELSE IF template[i] = "{name2}" THEN f2
            ELSE template[i]]

\* An adapter name, or no match
NameOrMissing(ads) == {None} \cup {Some(ads[i].name) : i \in 1..Len(ads)}

\* The ids of the records written to the file at `path`
IdsIn(path) == Range(written[path])

\* C9: once open_output_files has returned in combinatorial mode, without
\* --discard-untrimmed there is a pair of files for every key (n1, n2) with
\* n1 an R1 adapter name or missing and n2 an R2 adapter name or missing,
\* with --discard-untrimmed only for the keys of two adapter names; the files
\* are the -o and -p templates with {name1} and {name2} replaced by the names
\* ('unknown' for a missing one) and all of them are open; and without
\* --discard-untrimmed every pair the runner processed is in the two files of
\* its key.
C9_CombinatorialFiles ==
    (~IsNone(outfiles) /\ ~IsNone(Val(outfiles).combinatorial_out)) =>
        LET o == Val(outfiles)
            out == Val(o.combinatorial_out)
            out2 == Val(o.combinatorial_out2)
            keys == IF args.discard_untrimmed
                    THEN {<<n1, n2>> \in NameOrMissing(adapters) \X NameOrMissing(adapters2) :
                              ~IsNone(n1) /\ ~IsNone(n2)}
                    ELSE NameOrMissing(adapters) \X NameOrMissing(adapters2)
        IN  /\ DOMAIN out = keys
            /\ DOMAIN out2 = keys
            /\ \A k \in keys :
                   /\ out[k] = FilledIn(Val(args.output), k)
                   /\ out2[k] = FilledIn(Val(args.paired_output), k)
                   /\ {out[k], out2[k]} \subseteq opened
            /\ (pc = "report" /\ ~args.discard_untrimmed) =>
                   \A i \in 1..Len(input) :
                       LET k == <<Val(input[i].r1).match, Val(input[i].r2).match>>
                       IN  /\ k \in keys
                           /\ input[i].id \in IdsIn(out[k])
                           /\ input[i].id \in IdsIn(out2[k])

\* A pair that matches adapter A on R1 and nothing on R2 was written to
\* out_A_unknown.fq and p_A_unknown.fq
C9_Witness ==
    /\ pc = "report"
    /\ ~IsNone(Val(outfiles).combinatorial_out)
    /\ Val(input[1].r1).match = Some("A")
    /\ Val(input[1].r2).match = None
    /\ <<"out_", "A", "_", "unknown", ".fq">> \in opened
    /\ input[1].id \in IdsIn(<<"out_", "A", "_", "unknown", ".fq">>)
    /\ input[1].id \in IdsIn(<<"p_", "A", "_", "unknown", ".fq">>)

\* The template with "{name}" replaced
Named(template, name) ==
    [i \in 1..Len(template) |-> IF template[i] = "{name}" THEN name ELSE template[i]]

\* C10: once open_output_files has returned in normal demultiplexing mode,
\* there is one open file per R1 adapter name at the -o template with {name}
\* replaced by the name, and likewise for -p when it is given (no R2 files
\* otherwise); the bin of the reads without a match is absent exactly when
\* --discard-untrimmed is given, and otherwise it is the open file at the
\* path of --untrimmed-output (--untrimmed-paired-output for R2) when that
\* option is given and at the template with {name} replaced by 'unknown'
\* when it is not; a record without a match that the runner processed is in
\* that bin.
C10_DemultiplexFiles ==
    (~IsNone(outfiles) /\ ~IsNone(Val(outfiles).demultiplex_out)) =>
        LET o == Val(outfiles)
            out == Val(o.demultiplex_out)
            names == {adapters[i].name : i \in 1..Len(adapters)}
            Bin(given, template) ==
                IF args.discard_untrimmed THEN None
                ELSE IF ~IsNone(given) THEN given
                ELSE Some(Named(Val(template), "unknown"))
        IN  /\ DOMAIN out = names
            /\ \A n \in names : out[n] = Named(Val(args.output), n) /\ out[n] \in opened
            /\ o.untrimmed = Bin(args.untrimmed_output, args.output)
            /\ OpenedBy(o.untrimmed) \subseteq opened
            /\ IF IsNone(args.paired_output)
               THEN IsNone(o.demultiplex_out2) /\ IsNone(o.untrimmed2)
               ELSE /\ DOMAIN Val(o.demultiplex_out2) = names
                    /\ \A n \in names :
                           /\ Val(o.demultiplex_out2)[n] = Named(Val(args.paired_output), n)
                           /\ Val(o.demultiplex_out2)[n] \in opened
                    /\ o.untrimmed2 = Bin(args.untrimmed_paired_output, args.paired_output)
                    /\ OpenedBy(o.untrimmed2) \subseteq opened
            /\ Cardinality(opened \ SideFilesOpened(args))
                   = (Cardinality(names) + Len(o.untrimmed))
                     * (IF IsNone(args.paired_output) THEN 1 ELSE 2)
            /\ pc = "report" =>
                   \A i \in 1..Len(input) :
                       (/\ IsNone(Val(input[i].r1).match)
                        /\ ~IsNone(input[i].r2) => IsNone(Val(input[i].r2).match))
                       => \A f \in DOMAIN written :
                              input[i].id \in IdsIn(f)
                              <=> f \in OpenedBy(o.untrimmed) \cup OpenedBy(o.untrimmed2)

\* A pair without a match was written to the files given by
\* --untrimmed-output and --untrimmed-paired-output, and the files of
\* adapter A are open
C10_Witness ==
    /\ pc = "report"
    /\ ~IsNone(Val(outfiles).demultiplex_out)
    /\ {<<"out_", "A", ".fq">>, <<"p_", "A", ".fq">>} \subseteq opened
    /\ IsNone(Val(input[1].r1).match)
    /\ input[1].id \in IdsIn(<<"untr", ".fq">>)
    /\ input[1].id \in IdsIn(<<"untr2", ".fq">>)

-----------------------------------------------------------------------------
(* C5: the precedence of the filters                                       *)

\* Whether the command line installs filter f
FilterRequested(f) ==
    CASE f = "too_short" -> ~IsNone(args.minimum_length)
      [] f = "too_long" -> ~IsNone(args.maximum_length)
      [] f = "max_n" -> ~IsNone(args.max_n)
      [] f = "max_ee" -> ~IsNone(args.max_expected_errors)
      [] f = "discard_casava" -> args.discard_casava
      [] f = "discard_trimmed" -> args.discard_trimmed
      [] f = "discard_untrimmed" ->
             \/ args.discard_untrimmed
             \/ /\ ~IsNone(args.untrimmed_output)
                /\ IsNone(Val(outfiles).demultiplex_out)
                /\ IsNone(Val(outfiles).combinatorial_out)

\* Whether record rec meets the criterion of the requested filter f
MeetsCriterion(f, rec) ==
    /\ FilterRequested(f)
    /\ LET p == Val(pipeline)
           Meets(read, k) == ReadFails(f, read, args, LengthLimit(f, p, k))
       IN  IF IsNone(rec.r2) THEN Meets(Val(rec.r1), 1)
           ELSE LET mode == IF f = "discard_untrimmed" /\ p.override_untrimmed_pair_filter
                            THEN "both" ELSE RequestedPairFilterMode
                IN  ~KeptInMode(mode, ~Meets(Val(rec.r1), 1), ~Meets(Val(rec.r2), 2))

\* The positions in the precedence order of the filters whose criterion
\* the record meets
FiltersFailed(rec) == {k \in 1..7 : MeetsCriterion(FilterOrder[k], rec)}

\* The smallest element of a non-empty set of numbers
Least(S) == CHOOSE k \in S : \A j \in S : k <= j

\* The files that hold record rec
FilesHolding(rec) == {f \in DOMAIN written : rec.id \in IdsIn(f)}

\* C5: when the runner has returned, every record that meets the criterion
\* of at least one filter is in the files of the first such filter in the
\* order too-short, too-long, max-N, max-EE, discard-casava, discard-trimmed,
\* discard-untrimmed and in no other file (in no file when that filter has
\* none), every other record is in the files of its demultiplexing bin or in
\* the main output, every record is written at most once to a file, and the
\* statistics count each record once, for the filter that decided it.
C5_FilterPrecedence ==
    pc = "report" =>
        LET o == Val(outfiles)
            Decided(k) == {i \in 1..Len(input) :
                              /\ FiltersFailed(input[i]) # {}
                              /\ Least(FiltersFailed(input[i])) = k}
            Passed == {i \in 1..Len(input) : FiltersFailed(input[i]) = {}}
        IN  /\ \A i \in 1..Len(input) :
                   FilesHolding(input[i])
                   = IF FiltersFailed(input[i]) # {}
                     THEN FilterTarget(FilterOrder[Least(FiltersFailed(input[i]))], o)
                     ELSE FinalTarget(input[i], o)
            /\ \A i \in Passed : FilesHolding(input[i]) # {}
            /\ \A f \in DOMAIN written :
                   \A i, j \in 1..Len(written[f]) :
                       written[f][i] = written[f][j] => i = j
            /\ \A k \in 1..7 : stats[FilterOrder[k]] = Cardinality(Decided(k))
            /\ stats["demultiplex"] + stats["final"] = Cardinality(Passed)
            /\ stats["n"] = Len(input)

\* A read that is both too short and too long was written to the too-short
\* file only and counted as too short
C5_Witness ==
    /\ pc = "report"
    /\ {1, 2} \subseteq FiltersFailed(input[1])
    /\ FilesHolding(input[1]) = {<<"short", ".fq">>}
    /\ stats["too_short"] = 1
    /\ stats["too_long"] = 0

-----------------------------------------------------------------------------
(* C6, C7: how main ends                                                   *)

\* The exceptions of malformed input
FormatErrors == {"FileFormatError", "UnknownFileFormat", "EOFError"}

\* The statements of the try block that sets the run up
SetupStatements ==
    {"setup_input_files", "check_arguments", "adapters_from_args",
     "pipeline_from_parsed_args", "open_output_files", "setup_runner"}

\* C6: main ends with exit status 0, 1, 2 or 130 and with no other; with 0
\* when the runner has completed (and for --help / --version), with 2
\* exactly for the usage errors (an error of the argument parser, or a
\* CommandLineError, both before the runner starts), with 130 exactly for a
\* KeyboardInterrupt while the runner runs, and with 1 for a broken pipe, an
\* I/O error or malformed input while the runner runs.
C6_ExitStatus ==
    /\ pc = "exited" <=> ~IsNone(exitStatus)
    /\ pc = "exited" => exitStatus \in {Some(0), Some(1), Some(2), Some(130)}
    /\ (pc = "exited" /\ raised = "none") =>
           exitStatus = Some(0) /\ started /\ exitedAt = "report"
    /\ exitStatus = Some(0) => raised \in {"none", "SystemExit"}
    /\ raised \in {"ArgumentError", "CommandLineError"} =>
           exitStatus = Some(2) /\ ~started
    /\ exitStatus = Some(2) => raised \in {"ArgumentError", "CommandLineError"}
    /\ raised = "KeyboardInterrupt" => exitStatus = Some(130) /\ exitedAt = "running"
    /\ exitStatus = Some(130) => raised = "KeyboardInterrupt"
    /\ (exitedAt = "running" /\ raised \in {"BrokenPipeError", "OSError"} \cup FormatErrors)
           => exitStatus = Some(1)

\* The run was interrupted after the runner had written the record
C6_Witness ==
    /\ pc = "exited"
    /\ raised = "KeyboardInterrupt"
    /\ exitStatus = Some(130)
    /\ \E f \in DOMAIN written : written[f] # << >>

\* C7 as amended: every user input error found while main sets the run up
\* (bad or contradictory options, a missing adapter or input file, input
\* whose format is not recognised when the runner is built, an invalid
\* --rename template, an invalid character in an adapter) is raised as a
\* CommandLineError (or reported by the argument parser) before the runner
\* starts and ends the program with exit status 2, and no command line with
\* such an error gets past the statement that checks it; malformed input
\* that is found while the runner processes reads ends the program with exit
\* status 1 after the runner has started.
C7_SetupErrorsExit2 ==
    /\ raised \in {"ArgumentError", "CommandLineError"} =>
           /\ ~started
           /\ exitStatus = Some(2)
           /\ exitedAt \in {"parse"} \cup SetupStatements
    /\ (pc = "exited" /\ exitedAt \in SetupStatements
            /\ ~(exitedAt = "open_output_files" /\ raised = "OSError")) =>
           raised = "CommandLineError"
    /\ (raised \in FormatErrors /\ pc = "exited") =>
           started /\ exitedAt = "running" /\ exitStatus = Some(1)
    /\ pc \notin {"parse", "exited"} =>
           /\ ~(args.quiet /\ ~IsNone(args.report))
           /\ args.leftover_args = << >>
           /\ args.cores >= 0
    /\ pc \notin {"parse", "setup_input_files", "check_arguments", "exited"} =>
           /\ Len(args.inputs) \in {1, 2}
           /\ args.overlap >= 1
           /\ args.gc_content \in 0..100
    /\ ~IsNone(pipeline) =>
           /\ ~(Truthy(args.rename) /\ InvalidTemplate(Val(args.rename), paired))
           /\ ~IsNone(args.minimum_length) =>
                  parse_lengths(Val(args.minimum_length)).err = "none"
           /\ ~IsNone(args.quality_cutoff) =>
                  parse_cutoffs(Val(args.quality_cutoff)).err = "none"
    /\ ~IsNone(outfiles) => ~(args.discard_trimmed /\ args.discard_untrimmed)

\* C7 as stated: every user input error, malformed FASTQ/FASTA input
\* included, is raised before the runner starts and ends the program with
\* exit status 2.
C7_AllInputErrorsBeforeRun ==
    raised \in {"ArgumentError", "CommandLineError"} \cup FormatErrors =>
        ~started /\ exitStatus = Some(2)

\* The runner could not be built for its input: setup_runner raised a
\* CommandLineError after the output files had been opened
C7_Witness ==
    /\ pc = "exited"
    /\ exitedAt = "setup_runner"
    /\ raised = "CommandLineError"
    /\ exitStatus = Some(2)
    /\ ~started

-----------------------------------------------------------------------------
(* C1: the parallel runner against the serial runner                       *)

\* s is a prefix of t
IsPrefix(s, t) == Len(s) <= Len(t) /\ s = SubSeq(t, 1, Len(s))

\* What processing the whole input record by record writes and counts
SerialResult ==
    ProcessAll(input, Val(pipeline), Val(outfiles),
               [f \in DOMAIN written |-> << >>], ZeroStatistics)

\* The chunk_ids of the chunks and results that are under way
PendingIds ==
    {chunkQueue[i].id : i \in 1..Len(chunkQueue)}
    \cup {resultQueue[i].id : i \in 1..Len(resultQueue)}
    \cup {r.id : r \in writerBuf}
    \cup {Val(workers[w].result).id :
             w \in {v \in DOMAIN workers : ~IsNone(workers[v].result)}}

\* C1: on any number of cores, with any chunking and any interleaving of
\* reader, workers and writer, each output file holds at every moment a
\* prefix of what processing the input record by record writes to it, and
\* when the runner has returned it holds all of it and the statistics are the
\* same; the writer has written exactly the chunks with a chunk_id below
\* nextWrite, so a chunk is written only after every earlier one.
C1_ParallelEqualsSerial ==
    /\ started =>
           \A f \in DOMAIN written : IsPrefix(written[f], SerialResult.written[f])
    /\ pc = "report" =>
           written = SerialResult.written /\ stats = SerialResult.stats
    /\ (started /\ runner = "parallel") =>
           /\ nextWrite <= chunksMade
           /\ \A id \in PendingIds : nextWrite <= id /\ id < chunksMade
           /\ Cardinality(PendingIds)
                  = Len(chunkQueue) + Len(resultQueue) + Cardinality(writerBuf)
                    + Cardinality({w \in DOMAIN workers : ~IsNone(workers[w].result)})
           /\ nextWrite + Cardinality(PendingIds) = chunksMade

\* The writer holds the result of chunk 1 while it waits for chunk 0, which
\* a slower worker has not delivered yet
C1_Witness ==
    /\ pc = "running"
    /\ runner = "parallel"
    /\ nextWrite = 0
    /\ \E r \in writerBuf : r.id = 1
    /\ \E w \in DOMAIN workers :
           ~IsNone(workers[w].result) /\ Val(workers[w].result).id = 0

-----------------------------------------------------------------------------
(* C11: the demultiplexing mode                                            *)

\* Output path templates: plain, {name}, {name1} and {name2}, all three
\* placeholders, {name1} alone
OutputTemplates ==
    {<<"o", ".fq">>,
     <<"o", "{name}">>,
     <<"o", "{name1}", "{name2}">>,
     <<"o", "{name}", "{name1}", "{name2}">>,
     <<"o", "{name1}">>}

\* The same templates for -p
PairedOutputTemplates == {<<"p">> \o SubSeq(tpl, 2, Len(tpl)) : tpl \in OutputTemplates}

\* cutadapt [-o O] [-p P] in1.fq [in2.fq]: two input files when -p is given
DemultiplexModeBases ==
    {[DefaultArgs EXCEPT !.output = o, !.paired_output = p,
                         !.inputs = IF IsNone(p) THEN <<"in1.fq">>
                                    ELSE <<"in1.fq", "in2.fq">>] :
        o \in {None} \cup {Some(tpl) : tpl \in OutputTemplates},
        p \in {None} \cup {Some(tpl) : tpl \in PairedOutputTemplates}}

DemultiplexModeOptions ==
    <<Option("interleaved", TRUE),
      Option("adapters", <<AdapterA>>),
      Option("adapters2", <<AdapterX>>),
      Option("cores", 2)>>

InitDemultiplexMode ==
    \E a \in CommandLines(DemultiplexModeBases, DemultiplexModeOptions) :
        Start(a, OneRecord(a))

\* Command lines with every combination of placeholders in -o and -p
SpecDemultiplexMode == InitDemultiplexMode /\ [][Next]_vars

\* Whether the option value x is given and contains the placeholder
HasPlaceholder(x, placeholder) == ~IsNone(x) /\ Contains(Val(x), placeholder)

\* {name} occurs in exactly one of -o and -p, and -p is given
NameInOneOnly ==
    /\ ~IsNone(args.paired_output)
    /\ HasPlaceholder(args.output, "{name}") # HasPlaceholder(args.paired_output, "{name}")

\* -o and -p are both given and each contains both {name1} and {name2}
CombinatorialTemplates ==
    /\ HasPlaceholder(args.output, "{name1}")
    /\ HasPlaceholder(args.output, "{name2}")
    /\ HasPlaceholder(args.paired_output, "{name1}")
    /\ HasPlaceholder(args.paired_output, "{name2}")

\* The mode the opened output files are in
OutputMode(o) ==
    IF ~IsNone(o.demultiplex_out) THEN "normal"
    ELSE IF ~IsNone(o.combinatorial_out) THEN "combinatorial"
    ELSE "False"

\* C11: determine_demultiplex_mode raises a usage error exactly when -p is
\* given and {name} occurs in exactly one of -o and -p, or when -o has {name}
\* and the templates are combinatorial; otherwise it yields exactly one mode:
\* normal iff -o contains {name}, combinatorial iff -o and -p both contain
\* {name1} and {name2}, else none; combinatorial needs -p; and the output
\* files main opens are those of that mode, while a run the function rejects
\* ends in open_output_files with exit status 2.
C11_DemultiplexMode ==
    LET r == determine_demultiplex_mode(args)
    IN  /\ r.err \in {"none", "CommandLineError"}
        /\ r.err = "CommandLineError"
              <=> (NameInOneOnly
                   \/ (HasPlaceholder(args.output, "{name}") /\ CombinatorialTemplates))
        /\ r.err = "none" =>
              /\ r.mode \in {"normal", "combinatorial", "False"}
              /\ r.mode = "normal" <=> HasPlaceholder(args.output, "{name}")
              /\ r.mode = "combinatorial" <=> CombinatorialTemplates
              /\ r.mode = "combinatorial" => ~IsNone(args.paired_output) /\ determine_paired(args)
        /\ ~IsNone(outfiles) => r.err = "none" /\ OutputMode(Val(outfiles)) = r.mode
        /\ (exitedAt = "open_output_files" /\ r.err # "none") =>
              exitStatus = Some(2) /\ raised = "CommandLineError"

\* A run rejected because {name} is combined with {name1} and {name2}
C11_Witness ==
    /\ exitedAt = "open_output_files"
    /\ exitStatus = Some(2)
    /\ HasPlaceholder(args.output, "{name}")
    /\ CombinatorialTemplates
    /\ ~NameInOneOnly

-----------------------------------------------------------------------------
(* C12: --discard-trimmed, --discard-untrimmed and --untrimmed-output      *)

\* The options that say what happens to trimmed and untrimmed reads
DiscardOptions ==
    <<Option("discard_trimmed", TRUE),
      Option("discard_untrimmed", TRUE),
      Option("untrimmed_output", Some(<<"untr", ".fq">>)),
      Option("untrimmed_paired_output", Some(<<"untr2", ".fq">>)),
      Option("info_file", Some(<<"info", ".tsv">>)),
      Option("adapters", <<AdapterA>>),
      Option("cores", 2)>>

InitDiscard ==
    \E a \in CommandLines({BaseSingle, BasePaired, DemultiplexSingle,
                           DemultiplexPaired, Combinatorial}, DiscardOptions) :
        \E r1 \in Reads(a.adapters, {2}, {0}) :
            Start(a, <<Record(a, 1, r1, PlainRead)>>)

\* Command lines with and without demultiplexing and up to MaxOptions of the
\* discard options
SpecDiscard == InitDiscard /\ [][Next]_vars

\* How many of --discard-trimmed, --discard-untrimmed, --untrimmed-output the
\* command line gives
GivenOfTheThree ==
    Cardinality({o \in {"discard_trimmed", "discard_untrimmed"} : args[o]}
                \cup {o \in {"untrimmed_output"} : args[o] # None})

\* --discard-trimmed together with {name} or {name1}/{name2} output templates
DiscardTrimmedWhenDemultiplexing ==
    /\ args.discard_trimmed
    /\ determine_demultiplex_mode(args).mode # "False"

\* C12: in every run whose output files were opened (and so in every run that
\* processes reads) at most one of --discard-trimmed, --discard-untrimmed and
\* --untrimmed-output is given and --discard-trimmed is not combined with a
\* demultiplexing mode; a command line that breaks either rule and gets as far
\* as open_output_files ends there, with exit status 2 unless opening one of
\* the side files failed before the options were looked at.
C12_OneOfDiscardOptions ==
    /\ (~IsNone(outfiles) \/ started) =>
          GivenOfTheThree <= 1 /\ ~DiscardTrimmedWhenDemultiplexing
    /\ (GivenOfTheThree > 1 \/ DiscardTrimmedWhenDemultiplexing) =>
          /\ pc \in {"parse", "setup_input_files", "check_arguments",
                     "adapters_from_args", "pipeline_from_parsed_args",
                     "open_output_files", "exited"}
          /\ exitedAt = "open_output_files" =>
                \/ exitStatus = Some(2) /\ raised = "CommandLineError"
                \/ raised = "OSError" /\ SideFilesOpened(args) # {}

\* --discard-untrimmed and --untrimmed-output together, rejected by
\* open_output_files
C12_Witness ==
    /\ exitedAt = "open_output_files"
    /\ exitStatus = Some(2)
    /\ ~args.discard_trimmed
    /\ args.discard_untrimmed
    /\ ~IsNone(args.untrimmed_output)

-----------------------------------------------------------------------------
(* C13: paired-end mode and the number of input files                      *)

\* cutadapt -o out.fq with no, one, two and three input files
InputCountBases ==
    {[DefaultArgs EXCEPT !.output = Some(<<"out", ".fq">>), !.inputs = files] :
        files \in {<< >>, <<"in1.fq">>, <<"in1.fq", "in2.fq">>,
                   <<"in1.fq", "in2.fq", "in3.fq">>}}

\* The options that enable paired-end mode; one of them with an empty value
PairedModeOptions ==
    <<Option("paired_output", Some(<<"out2", ".fq">>)),
      Option("interleaved", TRUE),
      Option("adapters2", <<AdapterX>>),
      Option("cut2", <<0>>),
      Option("pair_filter", Some("both")),
      Option("untrimmed_paired_output", Some(<<"untr2", ".fq">>)),
      Option("too_short_paired_output", Some(<< >>)),
      Option("too_long_paired_output", Some(<<"long2", ".fq">>)),
      Option("quality_cutoff2", Some(<<"5">>)),
      Option("cores", 2)>>

InitPairedMode ==
    \E a \in CommandLines(InputCountBases, PairedModeOptions) :
        Start(a, OneRecord(a))

\* Command lines with 0..3 input files and up to MaxOptions of the options
\* that enable paired-end mode
SpecPairedMode == InitPairedMode /\ [][Next]_vars

\* One of the options that enable paired-end mode is given; an option given
\* with an empty value counts as not given
PairedOptionGiven ==
    \/ \E o \in {"paired_output", "untrimmed_paired_output",
                  "too_short_paired_output", "too_long_paired_output",
                  "quality_cutoff2"} : args[o] # None /\ args[o] # Some(<< >>)
    \/ args.pair_filter # None
    \/ args.interleaved
    \/ args.adapters2 # << >>
    \/ args.cut2 # << >>

\* The input is one interleaved file
SingleInterleavedFile == args.interleaved /\ Len(args.inputs) = 1

\* The statements of main up to and including setup_input_files
UpToInputFiles == {"parse", "setup_input_files"}

\* C13: once main has determined the mode, paired-end mode is on iff one of
\* -p, --interleaved, -A/-G/-B, -U, --pair-filter, --untrimmed-paired-output,
\* --too-short-paired-output, --too-long-paired-output, -Q is given (with a
\* non-empty value); a run gets past setup_input_files only with exactly two
\* input files when paired-end mode is on and the input is not a single
\* interleaved file, and exactly one input file otherwise; with any other
\* number of files it ends in setup_input_files with exit status 2.
C13_PairedModeAndInputs ==
    LET decided == pc # "parse" /\ exitedAt # "parse"
        passed == pc \notin UpToInputFiles /\ exitedAt \notin UpToInputFiles
        fits == Len(args.inputs) = (IF paired /\ ~SingleInterleavedFile THEN 2 ELSE 1)
    IN  /\ decided => (paired <=> PairedOptionGiven)
        /\ passed => fits /\ Len(args.inputs) \in {1, 2}
        /\ (decided /\ ~fits) =>
              /\ pc \in {"setup_input_files", "exited"}
              /\ pc = "exited" =>
                    /\ exitedAt = "setup_input_files"
                    /\ exitStatus = Some(2)
                    /\ raised = "CommandLineError"

\* Paired-end mode switched on by -Q alone, with two input files accepted
C13_Witness ==
    /\ pc = "check_arguments"
    /\ paired
    /\ ~IsNone(args.quality_cutoff2)
    /\ IsNone(args.paired_output)
    /\ ~args.interleaved
    /\ args.adapters2 = << >>
    /\ args.cut2 = << >>
    /\ Len(args.inputs) = 2

-----------------------------------------------------------------------------
(* C14: quality cutoffs of R1 and R2                                       *)

\* Values of -q and -Q: "5", "0", "6,7", "20", "0,3"
QualityCutoffValues ==
    {<<"5">>, <<"0">>, <<"6", ",", "7">>, <<"2", "0">>, <<"0", ",", "3">>}

\* cutadapt [-q V] [-Q W] on single-end and on paired-end data
QualityBases ==
    {[base EXCEPT !.quality_cutoff = q, !.quality_cutoff2 = q2] :
        base \in {BaseSingle, BasePaired},
        q \in {None} \cup {Some(v) : v \in QualityCutoffValues},
        q2 \in {None} \cup {Some(v) : v \in QualityCutoffValues}}

QualityOptions ==
    <<Option("quality_base", 64),
      Option("cut", <<2>>),
      Option("inputs", <<"in1.fq", "in2.fq">>),
      Option("cores", 2)>>

InitQuality ==
    \E a \in CommandLines(QualityBases, QualityOptions) : Start(a, OneRecord(a))

\* Command lines with every combination of values of -q and -Q
SpecQuality == InitQuality /\ [][Next]_vars

\* The cutoffs (5' end, 3' end) a value of -q / -Q stands for
CutoffsOf(v) ==
    CASE v = <<"5">> -> <<0, 5>>
      [] v = <<"2", "0">> -> <<0, 20>>
      [] v = <<"6", ",", "7">> -> <<6, 7>>
      [] v = <<"0", ",", "3">> -> <<0, 3>>

\* The arguments of the trimmer option `o` asks for; None when the option is
\* not given or its value is "0"
TrimmerFor(o) ==
    IF IsNone(o) \/ o = Some(<<"0">>) THEN None
    ELSE Some(CutoffsOf(Val(o)) \o <<args.quality_base>>)

\* The constructor arguments of an optional modifier
ParamOf(m) == IF IsNone(m) THEN None ELSE Some(Val(m).param)

\* C14: in every pipeline that is built, R1 has a quality trimmer with the
\* cutoffs of -q (a single value V is (0, V), "A,B" is (A, B)) unless -q is
\* missing or "0"; on paired-end data R2 has the trimmer -Q asks for when -Q
\* is given, and otherwise a copy (not the R1 object) of the R1 trimmer; on
\* single-end data there is no R2 trimmer; the trimmers are installed in one
\* step, and in none when neither read gets one.
C14_QualityCutoffs ==
    ~IsNone(pipeline) =>
        LET q == SelectSteps(Val(pipeline).modifiers, "QualityTrimmer")
            want1 == TrimmerFor(args.quality_cutoff)
            want2 == IF ~paired THEN None
                     ELSE IF ~IsNone(args.quality_cutoff2)
                     THEN TrimmerFor(args.quality_cutoff2)
                     ELSE want1
        IN  /\ Len(q) <= 1
            /\ Len(q) = 1 <=> (~IsNone(want1) \/ ~IsNone(want2))
            /\ Len(q) = 1 =>
                  /\ ParamOf(q[1].r1) = want1
                  /\ ParamOf(q[1].r2) = want2
                  /\ IsNone(q[1].pair)
                  /\ ~IsNone(q[1].r1) => Val(q[1].r1).obj = "new"
                  /\ ~IsNone(q[1].r2) =>
                        Val(q[1].r2).obj = (IF IsNone(args.quality_cutoff2)
                                            THEN "copy" ELSE "new")

\* Paired-end data with -q 6,7 and no -Q: R2 has a copy of the R1 trimmer
C14_Witness ==
    /\ ~IsNone(pipeline)
    /\ paired
    /\ args.quality_cutoff = Some(<<"6", ",", "7">>)
    /\ IsNone(args.quality_cutoff2)
    /\ \E i \in 1..Len(Val(pipeline).modifiers) :
           LET st == Val(pipeline).modifiers[i]
           IN  /\ StepClass(st) = "QualityTrimmer"
               /\ ~IsNone(st.r2)
               /\ Val(st.r2).param = <<6, 7, args.quality_base>>
               /\ Val(st.r2).obj = "copy"

-----------------------------------------------------------------------------
(* C15: --rc and the " rc" suffix                                          *)

\* The options that decide about the reverse complementer and the renamer
RevcompOptions ==
    <<Option("reverse_complement", TRUE),
      Option("adapters", <<AdapterA>>),
      Option("adapters2", <<AdapterX>>),
      Option("rename", Some(<<"{header}">>)),
      Option("rename", Some(<<"{id}", " ", "{adapter_name}">>)),
      Option("pair_adapters", TRUE),
      Option("cores", 2)>>

InitRevcomp ==
    \E a \in CommandLines({BaseSingle, BasePaired}, RevcompOptions) :
        \E r1 \in Reads(a.adapters, {2}, {0}) :
            Start(a, <<Record(a, 1, r1, PlainRead)>>)

\* Command lines with and without --rc, --rename and --pair-adapters
SpecRevcomp == InitRevcomp /\ [][Next]_vars

\* The steps of the pipeline that hold a ReverseComplementer
ReverseComplementers == SelectSteps(Val(pipeline).modifiers, "ReverseComplementer")

\* A Renamer (or PairedEndRenamer) is installed in the pipeline
RenamerInstalled ==
    \E i \in 1..Len(Val(pipeline).modifiers) :
        StepClass(Val(pipeline).modifiers[i]) \in {"Renamer", "PairedEndRenamer"}

\* --rename is given (with a non-empty template)
RenameGiven == args.rename # None /\ args.rename # Some(<< >>)

\* --rc on paired-end data or together with --pair-adapters
RevcompRejected == args.reverse_complement /\ (paired \/ args.pair_adapters)

\* C15 as amended: a pipeline is built with a ReverseComplementer exactly when
\* --rc is given and R1 adapters are; its suffix " rc" is configured iff
\* --rename is not given, while a Renamer is installed iff --rename is given
\* with a template other than {header}; no pipeline is built with --rc on
\* paired-end data or with --pair-adapters, and such a run that reaches
\* pipeline_from_parsed_args ends there with exit status 2.
C15_RcSuffixUnlessRename ==
    /\ ~IsNone(pipeline) =>
          /\ ~RevcompRejected
          /\ Len(ReverseComplementers) <= 1
          /\ Len(ReverseComplementers) = 1
                <=> (args.reverse_complement /\ adapters # << >>)
          /\ \A i \in 1..Len(ReverseComplementers) :
                 (Val(ReverseComplementers[i].r1).param[2] = Some(" rc"))
                    <=> ~RenameGiven
          /\ RenamerInstalled <=> (RenameGiven /\ args.rename # Some(<<"{header}">>))
    /\ (RevcompRejected /\ exitedAt = "pipeline_from_parsed_args") =>
          exitStatus = Some(2) /\ raised = "CommandLineError"

\* C15 as stated: the suffix is configured iff no Renamer is installed
C15_RcSuffixIffNoRenamer ==
    ~IsNone(pipeline) =>
        \A i \in 1..Len(ReverseComplementers) :
            (Val(ReverseComplementers[i].r1).param[2] = Some(" rc"))
               <=> ~RenamerInstalled

\* --rc with --rename: a ReverseComplementer without the suffix
C15_Witness ==
    /\ ~IsNone(pipeline)
    /\ RenameGiven
    /\ Len(ReverseComplementers) = 1
    /\ Val(ReverseComplementers[1].r1).param[2] = None

-----------------------------------------------------------------------------
(* C16: the reader, the workers and the writer do not wait for each other  *)
(* forever                                                                 *)

\* The main thread runs the statements of main and the serial runner
MainThread ==
    \/ ParseArgs \/ SetupInputFiles \/ CheckArguments \/ AdaptersFromArgs
    \/ PipelineFromParsedArgs \/ OpenOutputFiles \/ SetupRunner \/ RunnerStart
    \/ SerialStep \/ SerialReturn \/ ParallelReturn \/ Report

\* The reader process
ReaderThread == ReaderRead \/ ReaderEnd

\* Worker process number w
WorkerThread(w) ==
    /\ w \in DOMAIN workers
    /\ (WorkerProcess(w) \/ WorkerSend(w) \/ WorkerExit(w))

\* The writer
WriterThread == WriterReceive \/ WriterCommit

\* The scheduler lets every thread and process that can take a step take one
\* eventually; nothing is assumed about errors and interrupts
Fairness ==
    /\ WF_vars(MainThread)
    /\ WF_vars(ReaderThread)
    /\ \A w \in 1..MaxCpuCount : WF_vars(WorkerThread(w))
    /\ WF_vars(WriterThread)

\* cutadapt --cores=0 -a A -o out_{name}.fq in1.fq on inputs of 0..MaxRecords
\* reads
InitRunnerFair ==
    LET a == [DemultiplexSingle EXCEPT !.adapters = <<AdapterA>>, !.cores = 0]
    IN  \E recs \in Inputs(a, {PlainRead}, MaxRecords) : Start(a, recs)

\* The runs of the runners under fair scheduling
SpecRunnerFair == InitRunnerFair /\ [][Next]_vars /\ Fairness

\* run() has returned after the whole input was read, every chunk the reader
\* produced was written, the queues are empty and every worker has stopped
RunnerFinished ==
    /\ pc \in {"report", "exited"}
    /\ raised = "none"
    /\ started
    /\ readerPos = Len(input)
    /\ runner = "parallel" =>
          /\ readerDone
          /\ nextWrite = chunksMade
          /\ chunkQueue = << >> /\ resultQueue = << >> /\ writerBuf = {}
          /\ \A w \in DOMAIN workers :
                 workers[w].state = "exited" /\ IsNone(workers[w].result)

\* C16: under fair scheduling every run in which nothing raises and no
\* interrupt is signalled reaches the
\* point where run() has returned, every chunk is written and every worker
\* has stopped: for every queue capacity 1..QueueCap, every number of workers
\* 1..MaxCpuCount and every order in which the workers finish, the reader,
\* the workers and the writer never wait for each other forever.
C16_NoDeadlock == <>(raised # "none" \/ pc = "interrupted" \/ RunnerFinished)

\* The result queue is full with chunk 1, a worker holding chunk 0 waits for
\* room in it, and the writer waits for chunk 0
C16_Witness ==
    /\ pc = "running"
    /\ runner = "parallel"
    /\ nextWrite = 0
    /\ Len(resultQueue) = QueueCap
    /\ \A i \in 1..Len(resultQueue) : resultQueue[i].id # 0
    /\ \E w \in DOMAIN workers :
           /\ workers[w].state = "holding"
           /\ Val(workers[w].result).id = 0

-----------------------------------------------------------------------------
(* C17: what is written when a parallel run is interrupted or fails        *)

\* The ids of the records written to any output file
WrittenIds == UNION {Range(written[f]) : f \in DOMAIN written}

\* The ids of the records of the chunks that wait for a worker
QueuedRecordIds ==
    UNION {{chunkQueue[i].recs[j].id : j \in 1..Len(chunkQueue[i].recs)} :
              i \in 1..Len(chunkQueue)}

\* The results that are under way to the writer or buffered by it
PendingResults ==
    Range(resultQueue) \cup writerBuf
    \cup {Val(workers[w].result) :
             w \in {v \in DOMAIN workers : ~IsNone(workers[v].result)}}

\* The ids of the records that were read and are not written yet
PendingRecordIds ==
    QueuedRecordIds
    \cup UNION {{r.routed[j].id : j \in 1..Len(r.routed)} : r \in PendingResults}

\* In a parallel run, at any moment and however it ended, the chunks written
\* are the chunks 0..nextWrite-1: the records written are the first m records
\* of the input, those under way are the records after them up to the
\* reader's position, and each file holds a prefix of what the serial run
\* writes to it.
CommittedIsPrefix ==
    (started /\ runner = "parallel") =>
        /\ \E m \in 0..Len(input) :
               /\ WrittenIds = 1..m
               /\ PendingRecordIds = (m + 1)..readerPos
        /\ \A id \in PendingIds : nextWrite <= id /\ id < chunksMade
        /\ nextWrite + Cardinality(PendingIds) = chunksMade
        /\ \A f \in DOMAIN written : IsPrefix(written[f], SerialResult.written[f])
        /\ raised = "KeyboardInterrupt" => exitStatus = Some(130)

\* A step that writes to the outputs of a parallel run writes the chunk with
\* the next chunk_id; once the interrupt is signalled the reader produces no
\* new chunk, no worker takes one, and the run ends with exit status 130.
CommitsInOrder ==
    /\ (started /\ runner = "parallel" /\ (written' # written \/ nextWrite' # nextWrite)) =>
          /\ nextWrite' = nextWrite + 1
          /\ \E r \in writerBuf :
                 /\ r.id = nextWrite
                 /\ written' = WriteRouted(written, r.routed)
    /\ pc = "interrupted" =>
          /\ chunksMade' = chunksMade
          /\ readerPos' = readerPos
          /\ chunkQueue' = chunkQueue
          /\ pc' \in {"interrupted", "exited"}
          /\ pc' = "exited" =>
                exitStatus' = Some(130) /\ raised' = "KeyboardInterrupt"

\* C17: in every reachable state of a parallel run, also after a keyboard
\* interrupt or an error, the chunks written are exactly the chunks
\* 0..k-1, written in id order without gaps, so each output file holds a
\* prefix of the serial result; after the interrupt is signalled the reader
\* produces no new chunk and the run ends with exit status 130.
C17_CommittedPrefixOnShutdown == []CommittedIsPrefix /\ [][CommitsInOrder]_vars

\* The run was interrupted while the writer had chunk 1 buffered and chunk 0
\* had not arrived: chunk 1 is not written
C17_Witness ==
    /\ pc = "exited"
    /\ exitStatus = Some(130)
    /\ runner = "parallel"
    /\ nextWrite = 0
    /\ WrittenIds = {}
    /\ \E r \in writerBuf : r.id = 1 /\ Len(r.routed) > 0

-----------------------------------------------------------------------------
(* C18: the statistics of the workers add up to those of the serial run    *)

\* A read that is shorter than the minimum length of InitStatistics
ShortRead == [len |-> 1, n |-> 0, ee |-> 0, casava |-> FALSE, match |-> None]

\* cutadapt --cores=0 -a A -m 2 -o out_{name}.fq in1.fq on inputs of
\* 0..MaxRecords reads, each too short or with the adapter
InitStatistics ==
    LET a == [DemultiplexSingle EXCEPT !.adapters = <<AdapterA>>,
                                       !.minimum_length = Some(<<"2">>),
                                       !.cores = 0]
    IN  \E recs \in Inputs(a, {ShortRead, [PlainRead EXCEPT !.match = Some("A")]}, MaxRecords) :
            Start(a, recs)

\* Runs whose records are counted by several filters
SpecStatistics == InitStatistics /\ [][Next]_vars

\* The statistics of processing `recs`, counted record by record
CountedStatistics(recs) ==
    [k \in StatKeys |->
        Cardinality({i \in 1..Len(recs) :
                        \/ k = "n"
                        \/ Route(recs[i], Val(pipeline), Val(outfiles)).by = k})]

\* The statistics in the sequence s combined from left to right
RECURSIVE CombineAll(_)
CombineAll(s) ==
    IF s = << >> THEN ZeroStatistics
    ELSE AddStatistics(CombineAll(SubSeq(s, 1, Len(s) - 1)), s[Len(s)])

\* The orders in which the statistics of n workers can be combined
Orders ==
    [n \in 0..MaxCpuCount |->
        {o \in [1..n -> 1..n] : \A v, w \in 1..n : o[v] = o[w] => v = w}]

WorkerOrders == Orders[Len(workers)]

\* The records the workers have processed: the chunks leave the queue in the
\* order the reader made them
ProcessedByWorkers ==
    SubSeq(input, 1, readerPos - Cardinality(QueuedRecordIds))

\* The Statistics values of the state
StatisticsValues ==
    {stats, ZeroStatistics} \cup {workers[w].stats : w \in DOMAIN workers}

\* C18: in a parallel run, whatever the partition of the input into chunks
\* and whichever worker got which chunk, the statistics of the workers
\* combined in any order are the statistics of the records they processed,
\* counted record by record, and when run() has returned the statistics it
\* returns are those of the whole input, as in a serial run; combining the
\* statistics the run ends with is commutative and associative and the
\* all-zero statistics are its identity.
C18_StatisticsMonoid ==
    started =>
        /\ runner = "parallel" =>
              \E counted \in {CountedStatistics(ProcessedByWorkers)} :
                  \A o \in WorkerOrders :
                      CombineAll([i \in DOMAIN workers |-> workers[o[i]].stats])
                          = counted
        /\ runner = "serial" => stats = CountedStatistics(SubSeq(input, 1, readerPos))
        /\ pc = "report" => stats = CountedStatistics(input)
        /\ pc = "report" => \A a, b, c \in StatisticsValues :
               /\ AddStatistics(a, b) = AddStatistics(b, a)
               /\ AddStatistics(AddStatistics(a, b), c)
                      = AddStatistics(a, AddStatistics(b, c))
               /\ AddStatistics(a, ZeroStatistics) = a
               /\ AddStatistics(ZeroStatistics, a) = a

\* run() of the parallel runner has returned and two workers have each
\* processed a part of the input
C18_Witness ==
    /\ pc = "report"
    /\ runner = "parallel"
    /\ Cardinality({w \in DOMAIN workers : workers[w].stats["n"] > 0}) >= 2
    /\ stats["too_short"] > 0
    /\ stats["too_short"] < stats["n"]

-----------------------------------------------------------------------------
(* C19: the number of compression threads                                  *)

\* Values of -j / --cores
CoresValues == {-1, 0, 1, 2, 4, 5}

\* cutadapt -j N -o out.fq in1.fq
InitCores ==
    \E n \in CoresValues, q \in BOOLEAN :
        LET a == [BaseSingle EXCEPT !.cores = n, !.quiet = q]
        IN  Start(a, OneRecord(a))

\* Command lines with negative, zero, small and large values of -j
SpecCores == InitCores /\ [][Next]_vars

\* C19: once main has passed its checks of the options, `cores` is the value
\* of -j, or the detected number of CPUs when -j is 0, it is at least 1, and
\* the number of threads handed to the FileOpener is min(cores, 4), which is
\* between 1 and 4; a negative -j never gets that far: the run ends with exit
\* status 2.
C19_CompressionThreads ==
    /\ (pc # "parse" /\ exitedAt # "parse") =>
          /\ args.cores >= 0
          /\ IF args.cores = 0 THEN cores \in 1..MaxCpuCount ELSE cores = args.cores
          /\ cores >= 1
          /\ threads = (IF cores <= 4 THEN cores ELSE 4)
          /\ threads \in 1..4
    /\ args.cores < 0 =>
          /\ pc \in {"parse", "exited"}
          /\ pc = "exited" => exitedAt = "parse" /\ exitStatus \in {Some(0), Some(2)}
          /\ raised = "ArgumentError" => exitStatus = Some(2)

\* -j 5: four compression threads
C19_Witness ==
    /\ pc = "setup_input_files"
    /\ args.cores = 5
    /\ cores = 5
    /\ threads = 4

-----------------------------------------------------------------------------
(* C20: the values of -m and -M                                            *)

\* Values of -m / -M that the claim says are accepted by parse_lengths
GoodLengthValues ==
    {<<"3">>, <<"1", "2">>, <<"3", ":", "5">>, <<"3", ":">>, <<":", "5">>}

\* Values of -m / -M with more than one colon or a field that is no integer
BadLengthValues ==
    {<<"3", ":", "5", ":", "7">>, <<":", ":">>, <<"x">>, <<"3", ":", "x">>,
     <<"x", ":", "5">>}

LengthBases ==
    {[base EXCEPT !.minimum_length = m, !.maximum_length = M] :
        base \in {BaseSingle, BasePaired},
        m \in {None} \cup {Some(v) : v \in GoodLengthValues \cup BadLengthValues},
        M \in {None} \cup {Some(v) : v \in GoodLengthValues \cup BadLengthValues}}

LengthOptions ==
    <<Option("cores", 2),
      Option("interleaved", TRUE)>>

InitLengths ==
    \E a \in CommandLines(LengthBases, LengthOptions) : Start(a, OneRecord(a))

\* Command lines with every combination of values of -m and -M
SpecLengths == InitLengths /\ [][Next]_vars

\* The lengths an accepted value of -m / -M stands for
LengthsOf(v) ==
    CASE v = <<"3">> -> <<Some(3)>>
      [] v = <<"1", "2">> -> <<Some(12)>>
      [] v = <<"3", ":", "5">> -> <<Some(3), Some(5)>>
      [] v = <<"3", ":">> -> <<Some(3), None>>
      [] v = <<":", "5">> -> <<None, Some(5)>>

\* The value of -m / -M is a usage error for the kind of input at hand
LengthRejected(o) ==
    /\ ~IsNone(o)
    /\ \/ Val(o) \in BadLengthValues
       \/ ~paired /\ Len(LengthsOf(Val(o))) = 2

\* What the pipeline's attribute is to hold for the option value `o`
WantedLengths(o) ==
    IF IsNone(o) THEN None
    ELSE IF paired /\ Len(LengthsOf(Val(o))) = 1
    THEN Some(<<LengthsOf(Val(o))[1], LengthsOf(Val(o))[1]>>)
    ELSE Some(LengthsOf(Val(o)))

\* C20: in every pipeline that is built neither -m nor -M has a value with
\* more than one colon, with a non-integer field, or with two fields on
\* single-end data; minimum_length / maximum_length is unset when the option
\* is not given, and otherwise holds the parsed value: 'A' is (A,), 'A:B' is
\* (A, B), 'A:' is (A, None), ':B' is (None, B), and on paired-end data a
\* single length A is (A, A).  When building the pipeline ends the run and
\* one of the two values is such an error, the run ends as a usage error
\* with exit status 2.
C20_LengthValues ==
    /\ ~IsNone(pipeline) =>
          /\ ~LengthRejected(args.minimum_length)
          /\ ~LengthRejected(args.maximum_length)
          /\ Val(pipeline).minimum_length = WantedLengths(args.minimum_length)
          /\ Val(pipeline).maximum_length = WantedLengths(args.maximum_length)
    /\ (/\ pc \notin {"parse", "setup_input_files", "check_arguments",
                       "adapters_from_args", "pipeline_from_parsed_args"}
        /\ exitedAt \notin {"parse", "setup_input_files", "check_arguments",
                            "adapters_from_args"}
        /\ LengthRejected(args.minimum_length) \/ LengthRejected(args.maximum_length)) =>
          /\ pc = "exited"
          /\ exitedAt = "pipeline_from_parsed_args"
          /\ raised = "CommandLineError"
          /\ exitStatus = Some(2)

\* Paired-end data with -m 3 and -M 3:5: both reads get the minimum length 3
C20_Witness ==
    /\ ~IsNone(pipeline)
    /\ paired
    /\ args.minimum_length = Some(<<"3">>)
    /\ args.maximum_length = Some(<<"3", ":", "5">>)
    /\ Val(pipeline).minimum_length = Some(<<Some(3), Some(3)>>)
    /\ Val(pipeline).maximum_length = Some(<<Some(3), Some(5)>>)

-----------------------------------------------------------------------------
(* C21: the main routing target of the opened output files                 *)

\* cutadapt in1.fq: the trimmed reads go to standard output
BaseStdout == [DefaultArgs EXCEPT !.inputs = <<"in1.fq">>]

\* The options that name output files, and those that decide whether they
\* are opened
OpenOutputOptions ==
    <<Option("minimum_length", Some(<<"2">>)),
      Option("maximum_length", Some(<<"3">>)),
      Option("too_short_output", Some(<<"short", ".fq">>)),
      Option("too_long_output", Some(<<"long", ".fq">>)),
      Option("info_file", Some(<<"info", ".tsv">>)),
      Option("untrimmed_output", Some(<<"untr", ".fq">>)),
      Option("discard_trimmed", TRUE),
      Option("discard_untrimmed", TRUE),
      Option("adapters", <<AdapterA>>),
      Option("adapters2", <<AdapterX>>),
      Option("cores", 2)>>

InitOpenOutput ==
    \E a \in CommandLines({BaseStdout, BaseSingle, BasePaired, DemultiplexSingle,
                           DemultiplexPaired, Combinatorial}, OpenOutputOptions) :
        Start(a, OneRecord(a))

\* Command lines with every kind of main output and up to MaxOptions of the
\* options about other output files
SpecOpenOutput == InitOpenOutput /\ [][Next]_vars

\* The main routing targets of OutputFiles `o` that are set
MainTargets(o) ==
    {f \in {"out", "demultiplex_out", "combinatorial_out"} : ~IsNone(o[f])}

\* The file the option names was opened for writing
OpenedFor(option) == ~IsNone(args[option]) /\ Val(args[option]) \in opened

-----------------------------------------------------------------------------
(* C22: output files and rejected command lines                            *)

\* main has ended with a usage error
UsageErrorExit == pc = "exited" /\ exitStatus = Some(2)

\* C22: when setup ends in a usage error (exit status 2), no output file has
\* been opened for writing.
C22_NoOutputOpenedOnUsageError == UsageErrorExit => opened = {}

\* --info-file together with two of the discard options: the info file is
\* open when the command line is rejected
C22_Witness ==
    /\ UsageErrorExit
    /\ exitedAt = "open_output_files"
    /\ raised = "CommandLineError"
    /\ DiscardOptionsGiven(args) > 1
    /\ ~IsNone(args.info_file)
    /\ opened = {Val(args.info_file)}

-----------------------------------------------------------------------------
(* C23: parse_lengths never returns only None entries                      *)

\* Values of -m / -M with and without a length in them: '', ':', '::' and
\* 'x' hold none
LengthStrings ==
    {<< >>, <<":">>, <<":", ":">>, <<"x">>, <<"3">>, <<"3", ":">>, <<":", "5">>,
     <<"3", ":", "5">>}

\* cutadapt -j N -m S -M T -o out.fq in1.fq, and the same on paired-end data
InitParseLengths ==
    \E base \in {BaseSingle, BasePaired}, n \in {1, 2} :
        \E m, M \in {None} \cup {Some(s) : s \in LengthStrings} :
            LET a == [base EXCEPT !.minimum_length = m, !.maximum_length = M,
                                  !.cores = n]
            IN  Start(a, OneRecord(a))

\* Command lines whose -m and -M values parse_lengths is applied to
SpecParseLengths == InitParseLengths /\ [][Next]_vars

\* A tuple of one or two entries of which at least one is an integer
HoldsALength(lengths) ==
    /\ Len(lengths) \in {1, 2}
    /\ \E i \in 1..Len(lengths) : ~IsNone(lengths[i])

\* C23: parse_lengths raises a CommandLineError or returns a tuple of one or
\* two entries of which at least one is an integer: the lengths of a pipeline
\* that was built are never all None.
C23_AtLeastOneLength ==
    ~IsNone(pipeline) =>
        \A attr \in {"minimum_length", "maximum_length"} :
            ~IsNone(Val(pipeline)[attr]) => HoldsALength(Val(Val(pipeline)[attr]))

\* -m '' on single-end data: parse_lengths returned (None,) and the pipeline
\* was built with it
C23_Witness ==
    /\ ~IsNone(pipeline)
    /\ ~paired
    /\ args.minimum_length = Some(<< >>)
    /\ parse_lengths(<< >>) = [err |-> "none", value |-> <<None>>]
    /\ Val(pipeline).minimum_length = Some(<<None>>)

-----------------------------------------------------------------------------
(* C24: the assertions of pipeline assembly                                *)

\* cutadapt -o out_{name1}_{name2}.fq -p p_{name1}.fq in1.fq in2.fq: {name2}
\* is missing from -p
HalfCombinatorial ==
    [Combinatorial EXCEPT !.paired_output = Some(<<"p_", "{name1}", ".fq">>)]

\* The options the assertions depend on
AssertionOptions ==
    <<Option("cut", <<2>>),
      Option("cut2", <<3>>),
      Option("quality_cutoff", Some(<<"5">>)),
      Option("quality_cutoff2", Some(<<"5">>)),
      Option("quality_cutoff2", Some(<< >>)),
      Option("adapters", <<AdapterA>>),
      Option("adapters2", <<AdapterX>>),
      Option("interleaved", TRUE),
      Option("inputs", <<"in1.fq", "in2.fq">>),
      Option("cores", 2)>>

InitAssertions ==
    \E a \in CommandLines({BaseSingle, BasePaired, Combinatorial, HalfCombinatorial},
                          AssertionOptions) :
        Start(a, OneRecord(a))

\* Command lines with -u, -U, -q, -Q on single-end and paired-end data and
\* with complete and incomplete {name1}/{name2} templates
SpecAssertions == InitAssertions /\ [][Next]_vars

\* The step changes R2 or the pair as a whole
TouchesSecondRead(st) == ~IsNone(st.r2) \/ ~IsNone(st.pair)

\* C24: no run ends with an AssertionError; a non-empty -U list or a
\* non-empty -Q value puts the run in paired-end mode, and no pipeline is
\* built with an empty -Q value; every pipeline that is built is a
\* PairedEndPipeline in paired-end mode and a SingleEndPipeline otherwise, and
\* only a PairedEndPipeline has steps that change R2; and when the output
\* files are those of combinatorial demultiplexing, -o and -p both contain
\* {name1} and {name2}.
C24_AssertionsHold ==
    /\ raised # "AssertionError"
    /\ (pc # "parse" /\ exitedAt # "parse"
        /\ (args.cut2 # << >> \/ Truthy(args.quality_cutoff2))) => paired
    /\ ~IsNone(pipeline) =>
          LET p == Val(pipeline)
          IN  /\ args.quality_cutoff2 # Some(<< >>)
              /\ p.cls = (IF paired THEN "PairedEndPipeline" ELSE "SingleEndPipeline")
              /\ \A i \in 1..Len(p.modifiers) :
                     TouchesSecondRead(p.modifiers[i]) => p.cls = "PairedEndPipeline"
    /\ (~IsNone(outfiles) /\ ~IsNone(Val(outfiles).combinatorial_out)) =>
          CombinatorialTemplates

\* -U 3 without -p on an interleaved input: the R2 cutter is in a
\* PairedEndPipeline
C24_Witness ==
    /\ ~IsNone(pipeline)
    /\ IsNone(args.paired_output)
    /\ args.cut2 = <<3>>
    /\ Val(pipeline).cls = "PairedEndPipeline"
    /\ \E i \in 1..Len(Val(pipeline).modifiers) :
           LET st == Val(pipeline).modifiers[i]
           IN  /\ IsNone(st.r1)
               /\ ~IsNone(st.r2)
               /\ Val(st.r2).cls = "UnconditionalCutter"

====
